---- MODULE Spec2Model ----
(***************************************************************************)
(* Netflix ETL pipeline: the orchestrator (src/src/pipeline.py) as a state *)
(* machine, and the Transformer (src/src/transform.py) as operators over   *)
(* tables.  A table (DataFrame) is a sequence of rows; a row is a record   *)
(* with an `index` label and one field per column.  Text is a sequence of  *)
(* one-character strings, so that strip / replace / parse are computed.    *)
(***************************************************************************)
EXTENDS Integers, Sequences, FiniteSets, TLC

\* ------------------------------------------------------------------------
\* Bounds of the model
\* ------------------------------------------------------------------------
MaxRows == 3
MaxClock == 3
MaxFeatureRows == 1

\* ------------------------------------------------------------------------
\* Missing values
\* ------------------------------------------------------------------------
\* np.nan in a text (object) column
NaN == <<"NaN">>
\* np.nan in a numeric column
NaNnum == -1000000
\* pd.NaT in a datetime column
NaT == 0

\* ------------------------------------------------------------------------
\* Text: str.strip, astype(str), replace
\* ------------------------------------------------------------------------
T_nan == <<"n", "a", "n">>
T_None == <<"N", "o", "n", "e">>
T_empty == <<>>

RECURSIVE lstrip(_)
lstrip(s) == IF s # <<>> /\ Head(s) = " " THEN lstrip(Tail(s)) ELSE s

RECURSIVE rstrip(_)
rstrip(s) == IF s # <<>> /\ s[Len(s)] = " " THEN rstrip(SubSeq(s, 1, Len(s) - 1)) ELSE s

\* Series.str.strip(): a missing value stays missing
str_strip(v) == IF v = NaN THEN NaN ELSE rstrip(lstrip(v))

\* Series.astype(str) on an object column: np.nan becomes the text 'nan'
astype_str(v) == IF v = NaN THEN T_nan ELSE v

\* Series.replace(list, np.nan)
replace_nan(v, olds) == IF v \in olds THEN NaN ELSE v

\* ------------------------------------------------------------------------
\* Dates.  A date_added cell is text before transform_dates and a datetime
\* after it; dt tells which.  A datetime is the number y*10000+m*100+d.
\* ------------------------------------------------------------------------
Txt(s) == [dt |-> FALSE, s |-> s, d |-> NaT]
Dt(d) == [dt |-> TRUE, s |-> <<>>, d |-> d]

Digits == <<"0", "1", "2", "3", "4", "5", "6", "7", "8", "9">>
IsDigit(c) == \E i \in 1..10 : Digits[i] = c
DigitVal(c) == (CHOOSE i \in 1..10 : Digits[i] = c) - 1
DigitChar(n) == Digits[n + 1]

\* the rest of a text from its first digit on
RECURSIVE DropToDigit(_)
DropToDigit(s) == IF s = <<>> \/ IsDigit(Head(s)) THEN s ELSE DropToDigit(Tail(s))

\* the number written by the digits a text starts with
RECURSIVE DigitRunValue(_, _)
DigitRunValue(s, acc) ==
    IF s = <<>> \/ ~IsDigit(Head(s)) THEN acc
    ELSE DigitRunValue(Tail(s), acc * 10 + DigitVal(Head(s)))

IsLeap(y) == (y % 4 = 0 /\ y % 100 # 0) \/ y % 400 = 0
DaysInMonth(y, m) ==
    IF m = 2 THEN (IF IsLeap(y) THEN 29 ELSE 28)
    ELSE IF m \in {4, 6, 9, 11} THEN 30 ELSE 31

\* a parse that takes the digits of the ISO form without checking the month
\* and the day against the calendar
to_datetime_unchecked(s) ==
    IF s = NaN \/ Len(s) # 10 THEN NaT
    ELSE IF s[5] # "-" \/ s[8] # "-" THEN NaT
    ELSE IF \E i \in {1, 2, 3, 4, 6, 7, 9, 10} : ~IsDigit(s[i]) THEN NaT
    ELSE DigitRunValue(SubSeq(s, 1, 4) \o SubSeq(s, 6, 7) \o SubSeq(s, 9, 10), 0)

\* pd.to_datetime(text, errors='coerce') on the ISO form YYYY-MM-DD; every
\* other text (and a missing value) is coerced to NaT.
to_datetime(s) ==
    IF s = NaN \/ Len(s) # 10 THEN NaT
    ELSE IF s[5] # "-" \/ s[8] # "-" THEN NaT
    ELSE IF \E i \in {1, 2, 3, 4, 6, 7, 9, 10} : ~IsDigit(s[i]) THEN NaT
    ELSE LET y == DigitVal(s[1]) * 1000 + DigitVal(s[2]) * 100
                  + DigitVal(s[3]) * 10 + DigitVal(s[4])
             m == DigitVal(s[6]) * 10 + DigitVal(s[7])
             d == DigitVal(s[9]) * 10 + DigitVal(s[10])
         IN IF y < 1678 \/ y > 2261 THEN NaT
            ELSE IF m < 1 \/ m > 12 THEN NaT
            ELSE IF d < 1 \/ d > DaysInMonth(y, m) THEN NaT
            ELSE y * 10000 + m * 100 + d

\* str() of a datetime64 value: 'YYYY-MM-DD', and 'NaT' for a missing one
FormatDate(d) ==
    IF d = NaT THEN <<"N", "a", "T">>
    ELSE LET y == d \div 10000
             m == (d \div 100) % 100
             dd == d % 100
         IN << DigitChar(y \div 1000), DigitChar((y \div 100) % 10),
               DigitChar((y \div 10) % 10), DigitChar(y % 10), "-",
               DigitChar(m \div 10), DigitChar(m % 10), "-",
               DigitChar(dd \div 10), DigitChar(dd % 10) >>

\* df['date_added'].astype(str): dispatches on the dtype of the column
date_astype_str(c) == IF c.dt THEN FormatDate(c.d) ELSE astype_str(c.s)

\* Series.isna() / notna() on a date_added cell
date_isna(c) == IF c.dt THEN c.d = NaT ELSE c.s = NaN

dt_year(d) == IF d = NaT THEN NaNnum ELSE d \div 10000
dt_month(d) == IF d = NaT THEN NaNnum ELSE (d \div 100) % 100

DayNames == <<"Sunday", "Monday", "Tuesday", "Wednesday", "Thursday", "Friday", "Saturday">>
MonthOffset == <<0, 3, 2, 5, 0, 3, 5, 1, 4, 6, 2, 4>>
\* Series.dt.day_name()
dt_day_name(d) ==
    IF d = NaT THEN NaN
    ELSE LET y0 == d \div 10000
             m == (d \div 100) % 100
             dd == d % 100
             y == IF m < 3 THEN y0 - 1 ELSE y0
         IN <<DayNames[((y + y \div 4 - y \div 100 + y \div 400 + MonthOffset[m] + dd) % 7) + 1]>>

\* ------------------------------------------------------------------------
\* DataFrame helpers
\* ------------------------------------------------------------------------
\* the columns of a row, without its index label
Cols(r) == [r EXCEPT !.index = 0]

RECURSIVE SelectIdx(_, _, _)
SelectIdx(df, keep, i) ==
    IF i > Len(df) THEN <<>>
    ELSE (IF i \in keep THEN <<df[i]>> ELSE <<>>) \o SelectIdx(df, keep, i + 1)

\* a value of a text or date column is missing (DataFrame.isna)
isna(r, col) ==
    IF col = "date_added" THEN date_isna(r.date_added)
    ELSE r[col] = NaN

\* a drop_duplicates that appends the repeated rows instead of removing them
drop_duplicates_concat(df) ==
    df \o SelectIdx(df, {i \in 1..Len(df) : \E j \in 1..(i - 1) : Cols(df[j]) = Cols(df[i])}, 1)

\* DataFrame.drop_duplicates(): keeps the first of the rows whose columns agree
drop_duplicates(df) ==
    SelectIdx(df, {i \in 1..Len(df) : \A j \in 1..(i - 1) : Cols(df[j]) # Cols(df[i])}, 1)

dropna_keep_all(df, subset) == df

\* DataFrame.dropna(subset=...): drops the rows missing any of the columns
dropna(df, subset) ==
    SelectIdx(df, {i \in 1..Len(df) : \A c \in subset : ~isna(df[i], c)}, 1)

\* DataFrame.reset_index(drop=True)
reset_index(df) == [i \in 1..Len(df) |-> [df[i] EXCEPT !.index = i - 1]]

\* ------------------------------------------------------------------------
\* clean_basic_data
\* ------------------------------------------------------------------------
critical_columns == {"show_id", "title", "type"}

clean_basic_data(df) == dropna(drop_duplicates(df), critical_columns)

\* ------------------------------------------------------------------------
\* transform_dates
\* ------------------------------------------------------------------------
\* A release_year cell is a number (a numeric column, or a number in a column
\* of mixed content) or a text; release_year is a float column after
\* transform_dates.
Num(n) == [isnum |-> TRUE, n |-> n, s |-> <<>>]
NumTxt(s) == [isnum |-> FALSE, n |-> NaNnum, s |-> s]

\* pd.to_numeric(errors='coerce'): a number stays, a text of decimal digits
\* is parsed, every other text is coerced to NaN
to_numeric(c) ==
    IF c.isnum THEN c.n
    ELSE IF c.s # <<>> /\ c.s # NaN /\ (\A i \in 1..Len(c.s) : IsDigit(c.s[i]))
    THEN DigitRunValue(c.s, 0)
    ELSE NaNnum

\* (df['release_year'] // 10) * 10
decade_rounded(ry) == IF ry = NaNnum THEN NaNnum ELSE ((ry + 5) \div 10) * 10

decade(ry) == IF ry = NaNnum THEN NaNnum ELSE (ry \div 10) * 10

\* a range test that also rejects the two boundary years
unrealistic_year_exclusive(ry, current_year) == ry <= 1900 \/ ry >= current_year + 2

\* (df['release_year'] < 1900) | (df['release_year'] > current_year + 2)
unrealistic_year(ry, current_year) == ry < 1900 \/ ry > current_year + 2

transform_dates_row(r, current_year) ==
    LET s1 == str_strip(date_astype_str(r.date_added))
        s2 == replace_nan(s1, {T_nan, T_None, T_empty})
        d == to_datetime(s2)
        ry0 == to_numeric(r.release_year)
        ry == IF ry0 # NaNnum /\ unrealistic_year(ry0, current_year)
              THEN NaNnum ELSE ry0
    IN [date_added |-> Dt(d),
        date_added_year |-> dt_year(d),
        date_added_month |-> dt_month(d),
        date_added_day_of_week |-> dt_day_name(d),
        release_year |-> Num(ry),
        decade |-> decade(ry)] @@ r

transform_dates(df, current_year) ==
    [i \in 1..Len(df) |-> transform_dates_row(df[i], current_year)]

\* ------------------------------------------------------------------------
\* clean_text_columns
\* ------------------------------------------------------------------------
\* one column of text_columns: astype(str), replace placeholders, strip,
\* replace the empty string
clean_text(v) ==
    replace_nan(str_strip(replace_nan(astype_str(v), {T_nan, T_None})), {T_empty})

\* the duration column: astype(str).str.strip(), then replace
clean_duration(v) ==
    replace_nan(str_strip(astype_str(v)), {T_nan, T_None, T_empty})

clean_text_row(r) ==
    [title |-> clean_text(r.title),
     director |-> clean_text(r.director),
     cast |-> clean_text(r.cast),
     country |-> clean_text(r.country),
     rating |-> clean_text(r.rating),
     listed_in |-> clean_text(r.listed_in),
     description |-> clean_text(r.description),
     duration |-> clean_duration(r.duration)] @@ r

clean_text_columns(df) == [i \in 1..Len(df) |-> clean_text_row(df[i])]

\* ------------------------------------------------------------------------
\* engineer_features
\* ------------------------------------------------------------------------
\* Series.str.extract(r'(\d+)').astype(float): the first run of digits
extract_number(v) ==
    IF v = NaN THEN NaNnum
    ELSE LET t == DropToDigit(v)
         IN IF t = <<>> THEN NaNnum ELSE DigitRunValue(t, 0)

EndsWith(s, suffix) ==
    Len(s) >= Len(suffix) /\ SubSeq(s, Len(s) - Len(suffix) + 1, Len(s)) = suffix

U_min == <<"m", "i", "n">>
U_Season == <<"S", "e", "a", "s", "o", "n">>
U_Seasons == <<"S", "e", "a", "s", "o", "n", "s">>

\* Series.str.extract(r'(min|Season|Seasons)$')
extract_unit_anywhere(v) ==
    LET Has(u) == \E i \in 1..Len(v) : i + Len(u) - 1 <= Len(v) /\ SubSeq(v, i, i + Len(u) - 1) = u
    IN IF v = NaN THEN NaN
       ELSE IF Has(U_Seasons) THEN U_Seasons
       ELSE IF Has(U_Season) THEN U_Season
       ELSE IF Has(U_min) THEN U_min
       ELSE NaN

extract_unit(v) ==
    IF v = NaN THEN NaN
    ELSE IF EndsWith(v, U_Seasons) THEN U_Seasons
    ELSE IF EndsWith(v, U_Season) THEN U_Season
    ELSE IF EndsWith(v, U_min) THEN U_min
    ELSE NaN

\* Series.str.count(',')
str_count_comma(s) == Cardinality({i \in 1..Len(s) : s[i] = ","})

\* df[col].str.count(',') + 1, and 0 where the column is missing
item_count(v) == IF v = NaN THEN 0 ELSE str_count_comma(v) + 1

\* Series.str.len()
str_len(v) == IF v = NaN THEN NaNnum ELSE Len(v)

\* Series.str.split().str.len(): the number of whitespace-separated words
word_count(v) ==
    IF v = NaN THEN NaNnum
    ELSE Cardinality({i \in 1..Len(v) : v[i] # " " /\ (i = 1 \/ v[i - 1] = " ")})

C_Kids == <<"Kids">>
C_Family == <<"Family">>
C_Teen == <<"Teen">>
C_Adult == <<"Adult">>
C_Other == <<"Other">>

R_G == <<"G">>
R_TV_Y == <<"T", "V", "-", "Y">>
R_TV_Y7 == <<"T", "V", "-", "Y", "7">>
R_TV_Y7_FV == <<"T", "V", "-", "Y", "7", "-", "F", "V">>
R_PG == <<"P", "G">>
R_TV_G == <<"T", "V", "-", "G">>
R_TV_PG == <<"T", "V", "-", "P", "G">>
R_PG_13 == <<"P", "G", "-", "1", "3">>
R_TV_14 == <<"T", "V", "-", "1", "4">>
R_R == <<"R">>
R_TV_MA == <<"T", "V", "-", "M", "A">>
R_NC_17 == <<"N", "C", "-", "1", "7">>

\* df['rating'].map({...}).fillna('Other')
rating_category_without_fillna(v) ==
    IF v \in {R_G, R_TV_Y, R_TV_Y7, R_TV_Y7_FV} THEN C_Kids
    ELSE IF v \in {R_PG, R_TV_G, R_TV_PG} THEN C_Family
    ELSE IF v \in {R_PG_13, R_TV_14} THEN C_Teen
    ELSE IF v \in {R_R, R_TV_MA, R_NC_17} THEN C_Adult
    ELSE NaN

rating_category(v) ==
    IF v \in {R_G, R_TV_Y, R_TV_Y7, R_TV_Y7_FV} THEN C_Kids
    ELSE IF v \in {R_PG, R_TV_G, R_TV_PG} THEN C_Family
    ELSE IF v \in {R_PG_13, R_TV_14} THEN C_Teen
    ELSE IF v \in {R_R, R_TV_MA, R_NC_17} THEN C_Adult
    ELSE C_Other

engineer_features_row(r) ==
    LET unit == extract_unit(r.duration)
    IN [duration_value |-> extract_number(r.duration),
        duration_unit |-> unit,
        is_movie |-> (unit = U_min),
        is_tv_show |-> (unit \in {U_Season, U_Seasons}),
        cast_count |-> item_count(r.cast),
        director_count |-> item_count(r.director),
        country_count |-> item_count(r.country),
        listed_in_count |-> item_count(r.listed_in),
        content_age_when_added |->
            IF r.date_added_year = NaNnum \/ r.release_year.n = NaNnum THEN NaNnum
            ELSE r.date_added_year - r.release_year.n,
        description_length |-> str_len(r.description),
        description_word_count |-> word_count(r.description),
        rating_category |-> rating_category(r.rating)] @@ r

engineer_features(df) == [i \in 1..Len(df) |-> engineer_features_row(df[i])]

\* ------------------------------------------------------------------------
\* process_categorical_data
\* ------------------------------------------------------------------------
RECURSIVE FirstToken(_)
FirstToken(s) ==
    IF s = <<>> \/ Head(s) = "," THEN <<>> ELSE <<Head(s)>> \o FirstToken(Tail(s))

\* Series.str.split(',').str[0].str.strip()
primary_token_unstripped(v) == IF v = NaN THEN NaN ELSE FirstToken(v)

primary_token(v) == IF v = NaN THEN NaN ELSE str_strip(FirstToken(v))

\* Series.str.contains(',', na=False)
contains_comma(v) == v # NaN /\ str_count_comma(v) > 0

process_categorical_row(r) ==
    [primary_country |-> primary_token(r.country),
     is_international |-> contains_comma(r.country),
     primary_genre |-> primary_token(r.listed_in),
     genre_diversity |-> item_count(r.listed_in)] @@ r

process_categorical_data(df) == [i \in 1..Len(df) |-> process_categorical_row(df[i])]

\* ------------------------------------------------------------------------
\* final_cleanup
\* ------------------------------------------------------------------------
\* the characters of the model in code-point order
Alphabet == << " ", ",", "-", "0", "1", "2", "3", "4", "5", "6", "7", "8", "9",
               "A", "B", "C", "D", "F", "G", "M", "N", "P", "R", "S", "T", "V", "Y",
               "a", "e", "i", "m", "n", "o", "s", "x" >>
Ord(c) == CHOOSE i \in 1..Len(Alphabet) : Alphabet[i] = c

\* Python's < on str
RECURSIVE StrLess(_, _)
StrLess(a, b) ==
    IF b = <<>> THEN FALSE
    ELSE IF a = <<>> THEN TRUE
    ELSE IF Head(a) = Head(b) THEN StrLess(Tail(a), Tail(b))
    ELSE Ord(Head(a)) < Ord(Head(b))

\* the order of sort_values(..., na_position='first')
SortsBefore_na_first(a, b) ==
    LET na == date_isna(a.date_added)
        nb == date_isna(b.date_added)
    IN IF na # nb THEN na
       ELSE IF ~na /\ a.date_added.d # b.date_added.d THEN a.date_added.d < b.date_added.d
       ELSE StrLess(a.show_id, b.show_id)

\* row a sorts strictly before row b under
\* sort_values(['date_added', 'show_id'], na_position='last')
SortsBefore(a, b) ==
    LET na == date_isna(a.date_added)
        nb == date_isna(b.date_added)
    IN IF na # nb THEN nb
       ELSE IF ~na /\ a.date_added.d # b.date_added.d THEN a.date_added.d < b.date_added.d
       ELSE StrLess(a.show_id, b.show_id)

\* the position a row takes in the (stable) sort
SortRank(df, i) ==
    Cardinality({j \in 1..Len(df) :
        SortsBefore(df[j], df[i]) \/ (~SortsBefore(df[i], df[j]) /\ j < i)}) + 1

sort_values(df) ==
    [k \in 1..Len(df) |-> df[CHOOSE i \in 1..Len(df) : SortRank(df, i) = k]]

\* the frame of final_cleanup before its index is reset
final_sorted(df) == sort_values(drop_duplicates(df))

final_cleanup(df) == reset_index(final_sorted(df))

\* ------------------------------------------------------------------------
\* transform_netflix_data
\* ------------------------------------------------------------------------
\* steps 1 to 5 of transform_netflix_data
transform_passes(df, current_year) ==
    process_categorical_data(engineer_features(clean_text_columns(
        transform_dates(clean_basic_data(df), current_year))))

\* a DataFrame or None
NoneDF == [none |-> TRUE, has_title |-> FALSE, rows |-> <<>>]
DF(rows) == [none |-> FALSE, has_title |-> TRUE, rows |-> rows]
df_empty(f) == f.rows = <<>>

\* The table objects of a call: arg holds the rows of the table the caller
\* passed, work the rows of the table that df_transformed names, and shared
\* tells whether the two are one object.  A call is a chain of steps, each
\* taking the objects the step before left.
\* a step that returns the object it was given, with the new rows in it
same_object(h, rows) ==
    [arg |-> IF h.shared THEN rows ELSE h.arg, work |-> rows, shared |-> h.shared]

\* df.copy(), drop_duplicates(), dropna(), sort_values().reset_index(): the
\* result is a new object
new_object(h, rows) == [arg |-> h.arg, work |-> rows, shared |-> FALSE]

\* df[col] = ... and df.loc[...] = ...: the columns are assigned in the object
assign_columns(h, rows) ==
    [arg |-> IF h.shared THEN rows ELSE h.arg, work |-> rows, shared |-> h.shared]

\* transform_netflix_data on a frame that has the column 'title' (without it
\* dropna raises KeyError, see _transform_data): what it returns, and the
\* caller's table after the call
transform_call(f, current_year) ==
    IF f.none \/ df_empty(f) THEN [ret |-> NoneDF, arg |-> f]
    ELSE LET s0 == {[arg |-> f.rows, work |-> f.rows, shared |-> TRUE]}
             s1 == {new_object(h, h.work) : h \in s0}
             s2 == {new_object(h, clean_basic_data(h.work)) : h \in s1}
             s3 == {assign_columns(h, transform_dates(h.work, current_year)) : h \in s2}
             s4 == {assign_columns(h, clean_text_columns(h.work)) : h \in s3}
             s5 == {assign_columns(h, engineer_features(h.work)) : h \in s4}
             s6 == {assign_columns(h, process_categorical_data(h.work)) : h \in s5}
             s7 == {new_object(h, final_cleanup(h.work)) : h \in s6}
         IN CHOOSE c \in {[ret |-> DF(h.work), arg |-> [f EXCEPT !.rows = h.arg]] : h \in s7} :
                TRUE

transform_netflix_data(f, current_year) == transform_call(f, current_year).ret

\* ------------------------------------------------------------------------
\* Input rows: the cells a CSV file can hold after pd.read_csv
\* ------------------------------------------------------------------------
ID_s2 == <<"s", "2">>
ID_s3 == <<"s", "3">>
D_2020_01_01 == <<"2", "0", "2", "0", "-", "0", "1", "-", "0", "1">>

BaseRow ==
    [index |-> 0,
     show_id |-> <<"s", "1">>,
     type |-> <<"Movie">>,
     title |-> <<"A">>,
     director |-> <<"C">>,
     cast |-> <<"F">>,
     country |-> <<"B">>,
     date_added |-> Txt(<<"2", "0", "2", "1", "-", "0", "9", "-", "2", "5">>),
     release_year |-> Num(2020),
     rating |-> R_PG_13,
     duration |-> <<"9", "0", " ", "m", "i", "n">>,
     listed_in |-> <<"D">>,
     description |-> <<"a", " ", "a">>]

InputRows ==
    { BaseRow,
      [BaseRow EXCEPT !.show_id = ID_s2],
      [BaseRow EXCEPT !.show_id = ID_s2, !.date_added = Txt(D_2020_01_01)],
      [BaseRow EXCEPT !.show_id = ID_s3, !.date_added = Txt(<<" ">> \o D_2020_01_01)],
      [BaseRow EXCEPT !.date_added = Txt(NaN)],
      [BaseRow EXCEPT !.show_id = ID_s2, !.date_added = Txt(<<"x">>)],
      [BaseRow EXCEPT !.show_id = NaN],
      [BaseRow EXCEPT !.type = NaN],
      [BaseRow EXCEPT !.title = NaN],
      [BaseRow EXCEPT !.title = <<" ">>],
      [BaseRow EXCEPT !.show_id = ID_s3, !.release_year = NumTxt(<<"1", "9", "9", "4">>)] }

\* the rows of the files the orchestrator is run on
FileRows ==
    { BaseRow,
      [BaseRow EXCEPT !.show_id = ID_s2, !.date_added = Txt(NaN)],
      [BaseRow EXCEPT !.show_id = NaN],
      [BaseRow EXCEPT !.title = <<"A", " ">>] }

RECURSIVE SeqsUpTo(_, _)
SeqsUpTo(S, n) ==
    IF n = 0 THEN {<<>>}
    ELSE LET shorter == SeqsUpTo(S, n - 1)
         IN shorter \cup {Append(q, x) : q \in {t \in shorter : Len(t) = n - 1}, x \in S}

\* ten rows: seven distinct complete rows, two exact duplicates of them and a
\* row without identifier
ScenarioTable ==
    reset_index(<<BaseRow,
                  [BaseRow EXCEPT !.show_id = ID_s2],
                  [BaseRow EXCEPT !.show_id = ID_s3],
                  [BaseRow EXCEPT !.date_added = Txt(NaN)],
                  [BaseRow EXCEPT !.show_id = ID_s2, !.date_added = Txt(D_2020_01_01)],
                  [BaseRow EXCEPT !.show_id = ID_s3, !.release_year = NumTxt(<<"1", "9", "9", "4">>)],
                  [BaseRow EXCEPT !.director = NaN],
                  BaseRow,
                  [BaseRow EXCEPT !.show_id = ID_s2],
                  [BaseRow EXCEPT !.show_id = NaN]>>)

\* rows that differ from the second complete row in one cell of the rating,
\* duration, release_year, country, listed_in, date_added or director column
FeatureRows ==
    LET row2 == [BaseRow EXCEPT !.show_id = ID_s2]
        RatingCells ==
            {R_G, R_TV_Y, R_TV_Y7, R_TV_Y7_FV, R_PG, R_TV_G, R_TV_PG, R_PG_13, R_TV_14, R_R,
             R_TV_MA, R_NC_17,
             NaN, <<"p", "g">>, <<" ">> \o R_TV_MA \o <<" ">>, <<"U", "R">>, <<"T", "V">>}
        DurationCells ==
            {<<"3", " ">> \o U_Seasons,
             <<"1", " ">> \o U_Season,
             U_min \o <<" ", "5">>,
             <<"x">>,
             NaN,
             <<" ", "4", "5", " ">> \o U_min \o <<" ">>,
             <<"1", "2", " ", "x", " ", "3", "4", " ">> \o U_min,
             <<"9", "0">> \o U_min,
             <<"2", " ", "s", "e", "a", "s", "o", "n", "s">>,
             U_Season}
        YearCells ==
            {Num(1994), Num(2005), Num(1900), Num(1899), Num(2028), Num(2029), Num(2030),
             Num(NaNnum), NumTxt(<<"2", "0", "0", "5">>), NumTxt(<<"1", "9", "9", "x">>)}
        CountryCells ==
            {<<"B", ",", " ", "C">>, <<",", "B">>, <<" ", "B", " ", ",", "C">>, NaN}
        GenreCells ==
            {<<"D", ",", "E">>, <<"D", ",", " ", "E", ",", "F">>, <<" ", ",", "D">>, NaN}
        DateCells ==
            {Txt(T_nan), Txt(<<" ">> \o T_nan \o <<" ">>), Txt(T_None), Txt(T_empty), Txt(<<" ">>),
             Txt(<<"2", "0", "2", "1", "-", "0", "2", "-", "3", "0">>),
             Txt(<<"2", "0", "2", "0", "-", "0", "2", "-", "2", "9">>)}
        TextCells ==
            {<<" ">> \o T_nan \o <<" ">>, T_nan \o <<" ">>, <<" ">> \o T_None, T_None, T_empty,
             <<" ", "C", " ">>, NaN}
    IN {[row2 EXCEPT !.rating = x] : x \in RatingCells}
       \cup {[row2 EXCEPT !.duration = x] : x \in DurationCells}
       \cup {[row2 EXCEPT !.release_year = x] : x \in YearCells}
       \cup {[row2 EXCEPT !.country = x] : x \in CountryCells}
       \cup {[row2 EXCEPT !.listed_in = x] : x \in GenreCells}
       \cup {[row2 EXCEPT !.date_added = x] : x \in DateCells}
       \cup {[row2 EXCEPT !.director = x] : x \in TextCells}

\* pd.read_csv gives the rows the index 0..n-1
FeatureTables == {reset_index(<<BaseRow>> \o q) : q \in SeqsUpTo(FeatureRows, MaxFeatureRows)}
InputTables == {reset_index(q) : q \in SeqsUpTo(InputRows, MaxRows)} \cup FeatureTables
FileTables == {reset_index(q) : q \in SeqsUpTo(FileRows, MaxRows)}

\* datetime.now().year
WallClockYears == {2026, 2027}

\* ------------------------------------------------------------------------
\* State
\* ------------------------------------------------------------------------
VARIABLES
    state,                 \* position of run_full_pipeline
    csv_file,              \* the file at csv_path
    db_up,                 \* the destination store accepts connections
    db_table,              \* the destination table: whether it exists, and its rows
    reads,                 \* the encodings pd.read_csv was called with, in order
    load_report,           \* the report load_to_postgres generated
    raw_data,              \* self.raw_data
    transformed_data,      \* self.transformed_data
    pipeline_start_time,   \* self.pipeline_start_time
    pipeline_end_time,     \* self.pipeline_end_time
    pipeline_report,       \* self.pipeline_report
    report_files,          \* pipeline_report_*.json files written
    clock,                 \* datetime.now()
    invoked,               \* the stages invoked so far, in order
    result,                \* what each stage reported
    failed_at,             \* the step at which the run failed
    viz,                   \* the report steps attempted and their outcomes
    error_log,             \* the lines logged through handle_error
    ret,                   \* what run_full_pipeline returned
    exit_status,           \* exit status of the process
    current_year,          \* datetime.now().year
    t_pc, t_in, t_out, t_src, t_out2,  \* transform_netflix_data applied to a table
    t_arg,                 \* the table given to transform_netflix_data, as it is after the call
    a_pc, a_attempt, a_requests, a_log, a_ret,  \* extract_from_api and the responses it got
    u_dirs, u_files, u_log, u_last, u_calls,  \* save_to_file and create_directory, and the file system
    l_pc, l_df, l_mode, l_up, l_prior, l_res   \* load_to_postgres applied to a table

pvars == <<state, csv_file, db_up, db_table, reads, load_report, raw_data, transformed_data,
           pipeline_start_time, pipeline_end_time, pipeline_report, report_files,
           clock, invoked, result, failed_at, viz, error_log, ret, exit_status>>
tvars == <<t_pc, t_in, t_out, t_src, t_out2, t_arg>>
lvars == <<l_pc, l_df, l_mode, l_up, l_prior, l_res>>
avars == <<a_pc, a_attempt, a_requests, a_log, a_ret>>
uvars == <<u_dirs, u_files, u_log, u_last, u_calls>>
vars == <<pvars, tvars, lvars, avars, uvars, current_year>>

Stages == <<"extract", "transform", "load", "report">>
StageSet == {Stages[i] : i \in 1..Len(Stages)}

NoneTime == -1
NoExit == -1
EmptyReport == [status |-> "", start_time |-> NoneTime, end_time |-> NoneTime,
                duration_seconds |-> 0, raw_data_rows |-> 0, transformed_data_rows |-> 0]

\* ------------------------------------------------------------------------
\* extract_netflix_data
\* ------------------------------------------------------------------------
MissingFile == [exists |-> FALSE, utf8 |-> "error", latin1 |-> "error", frame |-> NoneDF]

Frames(tables) == {[none |-> FALSE, has_title |-> h, rows |-> t] : h \in BOOLEAN, t \in tables}

\* the files of at most one row come with and without the column title, and
\* in either encoding
Files ==
    LET ShortFileTables == {t \in FileTables : Len(t) <= 1}
    IN
    {MissingFile}
    \cup {[exists |-> TRUE, utf8 |-> "ok", latin1 |-> "ok", frame |-> DF(t)] : t \in FileTables}
    \cup {[exists |-> TRUE, utf8 |-> "ok", latin1 |-> "ok", frame |-> f] : f \in Frames(ShortFileTables)}
    \cup {[exists |-> TRUE, utf8 |-> "decode_error", latin1 |-> "ok", frame |-> f] : f \in Frames(ShortFileTables)}
    \cup {[exists |-> TRUE, utf8 |-> u, latin1 |-> "error", frame |-> NoneDF] : u \in {"decode_error", "error"}}
    \cup {[exists |-> TRUE, utf8 |-> "error", latin1 |-> "ok", frame |-> DF(reset_index(<<BaseRow>>))]}
    \cup {[exists |-> TRUE, utf8 |-> "ok", latin1 |-> "ok", frame |-> DF(ScenarioTable)]}

\* except UnicodeDecodeError: the errors of the first read that are answered
\* by a second read
retry_on_any_error(outcome) == outcome # "ok"

retry_latin1(outcome) == outcome = "decode_error"

extract_netflix_data(file) ==
    IF ~file.exists
    THEN [df |-> NoneDF, reads |-> <<>>, errs |-> <<"Netflix data file not found">>]
    ELSE IF file.utf8 = "ok"
    THEN IF df_empty(file.frame)
         THEN [df |-> NoneDF, reads |-> <<"utf-8">>, errs |-> <<"Dados estao vazios">>]
         ELSE IF ~file.frame.has_title
         THEN [df |-> NoneDF, reads |-> <<"utf-8">>, errs |-> <<"Colunas obrigatorias ausentes">>]
         ELSE [df |-> file.frame, reads |-> <<"utf-8">>, errs |-> <<>>]
    ELSE IF retry_latin1(file.utf8)
    THEN IF file.latin1 = "ok"
         THEN [df |-> file.frame, reads |-> <<"utf-8", "latin-1">>, errs |-> <<>>]
         ELSE [df |-> NoneDF, reads |-> <<"utf-8", "latin-1">>,
               errs |-> <<"Failed to read file with alternative encoding">>]
    ELSE [df |-> NoneDF, reads |-> <<"utf-8">>, errs |-> <<"Error extracting Netflix data">>]

_extract_data(file) ==
    LET e == extract_netflix_data(file)
    IN IF e.df.none
       THEN [res |-> "fail", df |-> e.df, reads |-> e.reads,
             errs |-> e.errs \o <<"Data extraction failed">>]
       ELSE [res |-> "ok", df |-> e.df, reads |-> e.reads, errs |-> e.errs]

\* ------------------------------------------------------------------------
\* NetflixETLPipeline._transform_data
\* ------------------------------------------------------------------------
_transform_data(raw, old, year) ==
    IF ~raw.none /\ ~df_empty(raw) /\ ~raw.has_title
    THEN \* dropna(subset=critical_columns) raises KeyError
         [res |-> "raise", df |-> old, raw |-> raw, errs |-> <<>>]
    ELSE LET call == transform_call(raw, year)
             t == call.ret
         IN IF t.none
            THEN [res |-> "fail", df |-> t, raw |-> call.arg,
                  errs |-> <<"Cannot transform empty or None DataFrame", "Data transformation failed">>]
            ELSE [res |-> "ok", df |-> t, raw |-> call.arg, errs |-> <<>>]

\* ------------------------------------------------------------------------
\* prepare_data_for_db
\* ------------------------------------------------------------------------
\* Python None, which the destination stores as NULL
PyNone == <<"None">>

\* an object column: Series.where(pd.notna(...), None)
prep_object(v) == IF v = NaN THEN PyNone ELSE v

\* a category column after astype(str) alone
prep_category_without_replace(v) == astype_str(v)

\* a category column: astype(str), then replace('nan', None)
prep_category(v) == IF astype_str(v) = T_nan THEN PyNone ELSE v

\* np.inf in a numeric column; -Inf is -np.inf
Inf == 2000000

\* a numeric column: replace([np.inf, -np.inf], np.nan), then where(notna, None)
prep_numeric(v) == IF v \in {Inf, -Inf} THEN NaNnum ELSE v

\* datetime64 and boolean cells keep their value: NaT and NaN stand for the
\* missing value in the datetime and numeric columns
prepare_row(r) ==
    [show_id |-> prep_object(r.show_id),
     title |-> prep_object(r.title),
     director |-> prep_object(r.director),
     cast |-> prep_object(r.cast),
     country |-> prep_object(r.country),
     duration |-> prep_object(r.duration),
     listed_in |-> prep_object(r.listed_in),
     description |-> prep_object(r.description),
     primary_country |-> prep_object(r.primary_country),
     primary_genre |-> prep_object(r.primary_genre),
     type |-> prep_category(r.type),
     rating |-> prep_category(r.rating),
     rating_category |-> prep_category(r.rating_category),
     duration_unit |-> prep_category(r.duration_unit),
     date_added_day_of_week |-> prep_category(r.date_added_day_of_week),
     release_year |-> Num(prep_numeric(r.release_year.n)),
     decade |-> prep_numeric(r.decade),
     date_added_year |-> prep_numeric(r.date_added_year),
     date_added_month |-> prep_numeric(r.date_added_month),
     duration_value |-> prep_numeric(r.duration_value),
     cast_count |-> prep_numeric(r.cast_count),
     director_count |-> prep_numeric(r.director_count),
     country_count |-> prep_numeric(r.country_count),
     listed_in_count |-> prep_numeric(r.listed_in_count),
     content_age_when_added |-> prep_numeric(r.content_age_when_added),
     description_length |-> prep_numeric(r.description_length),
     description_word_count |-> prep_numeric(r.description_word_count),
     genre_diversity |-> prep_numeric(r.genre_diversity)] @@ r

\* prepare_data_for_db on the rows of a table: what it returns, and the
\* caller's rows after the call
prepare_call(df) ==
    LET s0 == {[arg |-> df, work |-> df, shared |-> TRUE]}
        s1 == {new_object(h, h.work) : h \in s0}
        s2 == {assign_columns(h, [i \in 1..Len(h.work) |-> prepare_row(h.work[i])]) : h \in s1}
    IN CHOOSE c \in {[ret |-> h.work, arg |-> h.arg] : h \in s2} : TRUE

prepare_data_for_db(df) == prepare_call(df).ret

\* ------------------------------------------------------------------------
\* DataFrame.to_sql and the destination table
\* ------------------------------------------------------------------------
NoTable == [exists |-> FALSE, rows |-> <<>>]

\* to_sql(index=False) writes the columns of a row and not its index label
sql_row(r) == [c \in (DOMAIN r) \ {"index"} |-> r[c]]

\* to_sql(if_exists=...) on a table that exists
to_sql_always_append(df, table, if_exists) ==
    [raised |-> FALSE,
     table |-> [exists |-> TRUE,
                rows |-> table.rows \o [i \in 1..Len(df) |-> sql_row(df[i])]]]

to_sql(df, table, if_exists) ==
    LET new == [i \in 1..Len(df) |-> sql_row(df[i])]
    IN IF ~table.exists
       THEN [raised |-> FALSE, table |-> [exists |-> TRUE, rows |-> new]]
       ELSE IF if_exists = "fail"
       THEN [raised |-> TRUE, table |-> table]
       ELSE IF if_exists = "replace"
       THEN [raised |-> FALSE, table |-> [exists |-> TRUE, rows |-> new]]
       ELSE [raised |-> FALSE, table |-> [exists |-> TRUE, rows |-> table.rows \o new]]

\* ------------------------------------------------------------------------
\* generate_load_report
\* ------------------------------------------------------------------------
\* load_success_rate is a quotient: it is kept as numerator and denominator
NoLoadReport ==
    [made |-> FALSE, source_rows |-> 0, loaded_rows |-> 0,
     load_success_rate |-> [num |-> 0, den |-> 1]]

generate_load_report(df, loaded_rows) ==
    [made |-> TRUE,
     source_rows |-> Len(df),
     loaded_rows |-> loaded_rows,
     load_success_rate |-> IF Len(df) > 0
                           THEN [num |-> loaded_rows * 100, den |-> Len(df)]
                           ELSE [num |-> 0, den |-> 1]]

\* ------------------------------------------------------------------------
\* load_to_postgres and NetflixETLPipeline._load_data
\* ------------------------------------------------------------------------
\* what can go wrong in the destination store besides a refused connection
LoadFaults == {"none", "create_engine", "write_early", "write_late", "count"}

\* if df is None or df.empty
input_rejected_none_only(df) == df.none

input_rejected(df) == df.none \/ df_empty(df)

\* except SQLAlchemyError / except Exception
load_except_sqlalchemy_only(exc) ==
    IF exc = "SQLAlchemyError"
    THEN [raised |-> FALSE, err |-> "Database error during load"]
    ELSE [raised |-> TRUE, err |-> ""]

load_except(exc) ==
    IF exc = "SQLAlchemyError"
    THEN [raised |-> FALSE, err |-> "Database error during load"]
    ELSE [raised |-> FALSE, err |-> "Unexpected error during load"]

\* finally: if 'engine' in locals(): engine.dispose()
finally_dispose_on_success(steps, failed) ==
    IF failed = "" THEN <<"dispose">> ELSE <<>>

finally_dispose(steps, failed) ==
    IF (\E i \in 1..Len(steps) : steps[i] = "create_engine") /\ failed # "create_engine"
    THEN <<"dispose">>
    ELSE <<>>

\* the try block left through an exception of class exc raised by the step
\* failed; steps are the steps begun, in order
load_failed(steps, failed, exc, table) ==
    LET h == load_except(exc)
    IN [ok |-> FALSE,
        raised |-> h.raised,
        steps |-> steps \o finally_dispose(steps, failed),
        failed |-> failed,
        table |-> table,
        report |-> NoLoadReport,
        errs |-> IF h.raised THEN <<>> ELSE <<h.err>>]

NoLoadResult ==
    [ok |-> FALSE, raised |-> FALSE, steps |-> <<>>, failed |-> "", table |-> NoTable,
     report |-> NoLoadReport, errs |-> <<>>, df |-> NoneDF, df_to_load |-> <<>>]

load_to_postgres(df, if_exists, up, table, fault) ==
    IF input_rejected(df)
    THEN [ok |-> FALSE, raised |-> FALSE, steps |-> <<>>, failed |-> "", table |-> table,
          report |-> NoLoadReport, errs |-> <<"Cannot load empty or None DataFrame">>,
          df |-> df, df_to_load |-> <<>>]
    ELSE IF fault = "create_engine"
    THEN [df |-> df, df_to_load |-> <<>>]
         @@ load_failed(<<"create_engine">>, "create_engine", "SQLAlchemyError", table)
    ELSE IF ~up
    THEN [df |-> df, df_to_load |-> <<>>]
         @@ load_failed(<<"create_engine", "connect">>, "connect", "SQLAlchemyError", table)
    ELSE LET prepared == prepare_call(df.rows)
             df_to_load == prepared.ret
             w == to_sql(df_to_load, table, if_exists)
             begun == <<"create_engine", "connect", "to_sql">>
             \* the table a write leaves behind when it fails after the table was
             \* created and before the inserts were committed
             after_create == IF ~table.exists \/ if_exists = "replace"
                             THEN [exists |-> TRUE, rows |-> <<>>]
                             ELSE table
         IN [df |-> [df EXCEPT !.rows = prepared.arg], df_to_load |-> df_to_load] @@
            IF fault = "write_early"
            THEN load_failed(begun, "to_sql", "SQLAlchemyError", table)
            ELSE IF w.raised
            THEN load_failed(begun, "to_sql", "ValueError", table)
            ELSE IF fault = "write_late"
            THEN load_failed(begun, "to_sql", "SQLAlchemyError", after_create)
            ELSE IF fault = "count"
            THEN load_failed(Append(begun, "count"), "count", "SQLAlchemyError", w.table)
            ELSE LET done == begun \o <<"count", "report">>
                 IN [ok |-> TRUE,
                     raised |-> FALSE,
                     steps |-> done \o finally_dispose(done, ""),
                     failed |-> "",
                     table |-> w.table,
                     report |-> generate_load_report(df_to_load, Len(w.table.rows)),
                     errs |-> <<>>]

\* success = load_to_postgres(self.transformed_data, self.table_name)
_load_data(df, up, table, fault) ==
    LET l == load_to_postgres(df, "replace", up, table, fault)
    IN IF l.raised
       THEN [res |-> "raise", table |-> l.table, report |-> l.report, errs |-> l.errs]
       ELSE IF ~l.ok
       THEN [res |-> "fail", table |-> l.table, report |-> l.report,
             errs |-> l.errs \o <<"Data loading failed">>]
       ELSE [res |-> "ok", table |-> l.table, report |-> l.report, errs |-> l.errs]

\* the destination table before a load: absent, empty, or holding a row of an
\* earlier load
PriorRows ==
    LET y == CHOOSE y \in WallClockYears : TRUE
        old == transform_netflix_data(DF(<<[BaseRow EXCEPT !.show_id = <<"s", "9">>]>>), y).rows
        prep == prepare_data_for_db(old)
    IN [i \in 1..Len(prep) |-> sql_row(prep[i])]
PriorTables == {NoTable, [exists |-> TRUE, rows |-> <<>>], [exists |-> TRUE, rows |-> PriorRows]}

\* the frames load_to_postgres is called on
LoadInputs ==
    LET y0 == CHOOSE y \in WallClockYears : TRUE
        row == transform_netflix_data(DF(reset_index(<<BaseRow>>)), y0).rows[1]
    IN {NoneDF, DF(<<>>)}
       \cup {transform_netflix_data(DF(t), y) : t \in FileTables, y \in WallClockYears}
       \cup {transform_netflix_data(DF(reset_index(<<BaseRow, r>>)), y0) : r \in FeatureRows}
       \cup {DF(<<[row EXCEPT !.duration_value = x]>>) : x \in {Inf, -Inf}}

\* ------------------------------------------------------------------------
\* create_netflix_dashboard, generate_analysis_report, _generate_reports
\* ------------------------------------------------------------------------
create_netflix_dashboard_raising(df, ok) ==
    IF ok THEN [out |-> "path", errs |-> <<>>]
    ELSE [out |-> "raise", errs |-> <<>>]

create_netflix_dashboard(df, ok) ==
    IF ok THEN [out |-> "path", errs |-> <<>>]
    ELSE [out |-> "None", errs |-> <<"Error creating dashboard">>]

generate_analysis_report(df, ok) ==
    IF ok THEN [out |-> "path", errs |-> <<>>]
    ELSE [out |-> "None", errs |-> <<"Error generating analysis report">>]

_generate_reports(df, chart_ok, report_ok) ==
    LET d == create_netflix_dashboard(df, chart_ok)
        a == generate_analysis_report(df, report_ok)
    IN IF d.out = "raise"
       THEN [res |-> "fail", attempted |-> <<"dashboard">>,
             errs |-> d.errs \o <<"Error generating reports">>]
       ELSE IF a.out = "raise"
       THEN [res |-> "fail", attempted |-> <<"dashboard", "analysis_report">>,
             errs |-> d.errs \o a.errs \o <<"Error generating reports">>]
       ELSE [res |-> "ok", attempted |-> <<"dashboard", "analysis_report">>,
             errs |-> d.errs \o a.errs]

\* ------------------------------------------------------------------------
\* run_full_pipeline
\* ------------------------------------------------------------------------
\* an except clause that lets the exception through
except_handler_reraise ==
    [state |-> "failed", ret |-> "raise", errs |-> <<>>]

\* except Exception as e: handle_error(...); return False
except_handler ==
    [state |-> "failed", ret |-> "False", errs |-> <<"Pipeline failed with unexpected error">>]

\* a gate that goes on after a failed stage
stage_gate_continue(res, next) ==
    IF res = "raise" THEN except_handler
    ELSE [state |-> next, ret |-> "none", errs |-> <<>>]

\* if not self._stage(): return False
stage_gate(res, next) ==
    IF res = "ok" THEN [state |-> next, ret |-> "none", errs |-> <<>>]
    ELSE IF res = "fail" THEN [state |-> "failed", ret |-> "False", errs |-> <<>>]
    ELSE except_handler

Running == state \in {"extracting", "transforming", "loading", "reporting", "finalizing"}

Init ==
    /\ state = "not_started"
    /\ csv_file \in Files
    /\ db_up \in BOOLEAN
    /\ db_table = [exists |-> TRUE, rows |-> PriorRows]
    /\ reads = <<>>
    /\ load_report = NoLoadReport
    /\ raw_data = NoneDF
    /\ transformed_data = NoneDF
    /\ pipeline_start_time = NoneTime
    /\ pipeline_end_time = NoneTime
    /\ pipeline_report = EmptyReport
    /\ report_files = 0
    /\ clock = 0
    /\ invoked = <<>>
    /\ result = [s \in StageSet |-> "none"]
    /\ failed_at = ""
    /\ viz = [chart_ok |-> TRUE, report_ok |-> TRUE, attempted |-> <<>>]
    /\ error_log = <<>>
    /\ ret = "none"
    /\ exit_status = NoExit
    \* the orchestrator is run in the first of the years
    /\ current_year \in {y \in WallClockYears : \A z \in WallClockYears : y <= z}
    /\ t_pc = "idle"
    /\ t_in = NoneDF
    /\ t_out = NoneDF
    /\ t_src = <<>>
    /\ t_out2 = NoneDF
    /\ t_arg = NoneDF
    /\ l_pc = "idle"
    /\ l_df = NoneDF
    /\ l_mode = "replace"
    /\ l_up = FALSE
    /\ l_prior = NoTable
    /\ l_res = NoLoadResult
    /\ a_pc = "idle"
    /\ a_attempt = 0
    /\ a_requests = <<>>
    /\ a_log = <<>>
    /\ a_ret = NoneDF
    /\ u_dirs = {}
    /\ u_files = <<>>
    /\ u_log = <<>>
    /\ u_last = [op |-> "none", fault |-> "none", raised |-> FALSE]
    /\ u_calls = 0

\* time passes while the run is under way
Tick ==
    /\ Running
    /\ clock < MaxClock
    /\ clock' = clock + 1
    /\ UNCHANGED <<tvars, lvars, avars, uvars, current_year, reads, load_report, state, csv_file, db_up, db_table, raw_data, transformed_data,
                   pipeline_start_time, pipeline_end_time, pipeline_report, report_files,
                   invoked, result, failed_at, viz, error_log, ret, exit_status>>

\* run_full_pipeline, up to the try
StartPipeline ==
    /\ state = "not_started"
    /\ state' = "extracting"
    /\ pipeline_start_time' = clock
    /\ UNCHANGED <<tvars, lvars, avars, uvars, current_year, reads, load_report, csv_file, db_up, db_table, raw_data, transformed_data,
                   pipeline_end_time, pipeline_report, report_files, clock,
                   invoked, result, failed_at, viz, error_log, ret, exit_status>>

\* Step 1: if not self._extract_data(): return False
ExtractData ==
    /\ state = "extracting"
    /\ LET e == _extract_data(csv_file)
           g == stage_gate(e.res, "transforming")
       IN /\ raw_data' = e.df
          /\ reads' = e.reads
          /\ invoked' = Append(invoked, "extract")
          /\ result' = [result EXCEPT !["extract"] = e.res]
          /\ error_log' = error_log \o e.errs \o g.errs
          /\ state' = g.state
          /\ ret' = g.ret
          /\ failed_at' = IF g.state = "failed" THEN "extract" ELSE failed_at
    /\ UNCHANGED <<tvars, lvars, avars, uvars, current_year, load_report, csv_file, db_up, db_table, transformed_data,
                   pipeline_start_time, pipeline_end_time, pipeline_report, report_files,
                   clock, viz, exit_status>>

\* Step 2: if not self._transform_data(): return False
TransformData ==
    /\ state = "transforming"
    /\ LET t == _transform_data(raw_data, transformed_data, current_year)
           g == stage_gate(t.res, "loading")
       IN /\ transformed_data' = t.df
          /\ raw_data' = t.raw
          /\ invoked' = Append(invoked, "transform")
          /\ result' = [result EXCEPT !["transform"] = t.res]
          /\ error_log' = error_log \o t.errs \o g.errs
          /\ state' = g.state
          /\ ret' = g.ret
          /\ failed_at' = IF g.state = "failed" THEN "transform" ELSE failed_at
    /\ UNCHANGED <<tvars, lvars, avars, uvars, current_year, reads, load_report, csv_file, db_up, db_table,
                   pipeline_start_time, pipeline_end_time, pipeline_report, report_files,
                   clock, viz, exit_status>>

\* Step 3: if not self._load_data(): return False
LoadData ==
    /\ state = "loading"
    /\ \E fault \in LoadFaults :
        LET l == _load_data(transformed_data, db_up, db_table, fault)
            g == stage_gate(l.res, "reporting")
        IN /\ db_table' = l.table
           /\ load_report' = l.report
           /\ invoked' = Append(invoked, "load")
           /\ result' = [result EXCEPT !["load"] = l.res]
           /\ error_log' = error_log \o l.errs \o g.errs
           /\ state' = g.state
           /\ ret' = g.ret
           /\ failed_at' = IF g.state = "failed" THEN "load" ELSE failed_at
    /\ UNCHANGED <<tvars, lvars, avars, uvars, current_year, reads, csv_file, db_up, raw_data, transformed_data,
                   pipeline_start_time, pipeline_end_time, pipeline_report, report_files,
                   clock, viz, exit_status>>

\* Step 4: if not self._generate_reports(): return False
GenerateReports ==
    /\ state = "reporting"
    /\ \E chart_ok \in BOOLEAN, report_ok \in BOOLEAN :
        LET r == _generate_reports(transformed_data, chart_ok, report_ok)
            g == stage_gate(r.res, "finalizing")
        IN /\ viz' = [chart_ok |-> chart_ok, report_ok |-> report_ok, attempted |-> r.attempted]
           /\ invoked' = Append(invoked, "report")
           /\ result' = [result EXCEPT !["report"] = r.res]
           /\ error_log' = error_log \o r.errs \o g.errs
           /\ state' = g.state
           /\ ret' = g.ret
           /\ failed_at' = IF g.state = "failed" THEN "report" ELSE failed_at
    /\ UNCHANGED <<tvars, lvars, avars, uvars, current_year, reads, load_report, csv_file, db_up, db_table, raw_data, transformed_data,
                   pipeline_start_time, pipeline_end_time, pipeline_report, report_files,
                   clock, exit_status>>

\* Step 5: self._create_pipeline_report(), then the end time, then return True.
\* _create_pipeline_report subtracts the start time from self.pipeline_end_time,
\* which is still None when it is called: the TypeError reaches the except clause.
CreatePipelineReport ==
    /\ state = "finalizing"
    /\ \E save_ok \in BOOLEAN :
        IF pipeline_end_time = NoneTime
        THEN /\ state' = except_handler.state
             /\ ret' = except_handler.ret
             /\ error_log' = error_log \o except_handler.errs
             /\ failed_at' = "create_report"
             /\ UNCHANGED <<pipeline_report, report_files, pipeline_end_time>>
        ELSE /\ pipeline_report' =
                    [status |-> "SUCCESS",
                     start_time |-> pipeline_start_time,
                     end_time |-> pipeline_end_time,
                     duration_seconds |-> pipeline_end_time - pipeline_start_time,
                     raw_data_rows |-> IF raw_data.none THEN 0 ELSE Len(raw_data.rows),
                     transformed_data_rows |->
                         IF transformed_data.none THEN 0 ELSE Len(transformed_data.rows)]
             /\ report_files' = IF save_ok THEN report_files + 1 ELSE report_files
             /\ error_log' = IF save_ok THEN error_log
                             ELSE Append(error_log, "Error saving pipeline report")
             /\ pipeline_end_time' = clock
             /\ state' = "succeeded"
             /\ ret' = "True"
             /\ UNCHANGED failed_at
    /\ UNCHANGED <<tvars, lvars, avars, uvars, current_year, reads, load_report, csv_file, db_up, db_table, raw_data, transformed_data,
                   pipeline_start_time, clock, invoked, result, viz, exit_status>>

\* pipeline.py run as a script: log the outcome and fall off the end
Main ==
    /\ ret # "none"
    /\ exit_status = NoExit
    /\ error_log' = IF ret = "True" THEN error_log
                    ELSE Append(error_log, "Netflix ETL Pipeline failed!")
    /\ exit_status' = IF ret = "raise" THEN 1 ELSE 0
    /\ UNCHANGED <<tvars, lvars, avars, uvars, current_year, reads, load_report, state, csv_file, db_up, db_table, raw_data, transformed_data,
                   pipeline_start_time, pipeline_end_time, pipeline_report, report_files,
                   clock, invoked, result, failed_at, viz, ret>>

Next ==
    \/ Tick
    \/ StartPipeline
    \/ ExtractData
    \/ TransformData
    \/ LoadData
    \/ GenerateReports
    \/ CreatePipelineReport
    \/ Main

Spec == Init /\ [][Next]_vars

\* ------------------------------------------------------------------------
\* transform_netflix_data applied to a table, and again to its own result
\* ------------------------------------------------------------------------
InitT ==
    /\ state = "not_started"
    /\ csv_file = MissingFile
    /\ db_up = FALSE
    /\ db_table = NoTable
    /\ reads = <<>>
    /\ load_report = NoLoadReport
    /\ raw_data = NoneDF
    /\ transformed_data = NoneDF
    /\ pipeline_start_time = NoneTime
    /\ pipeline_end_time = NoneTime
    /\ pipeline_report = EmptyReport
    /\ report_files = 0
    /\ clock = 0
    /\ invoked = <<>>
    /\ result = [s \in StageSet |-> "none"]
    /\ failed_at = ""
    /\ viz = [chart_ok |-> TRUE, report_ok |-> TRUE, attempted |-> <<>>]
    /\ error_log = <<>>
    /\ ret = "none"
    /\ exit_status = NoExit
    /\ t_pc = "input"
    /\ t_in \in {DF(t) : t \in InputTables}
    \* the tables with a varied cell are transformed in each year, the other
    \* tables in the first year
    /\ current_year \in {y \in WallClockYears :
                            t_in.rows \in FeatureTables \/ \A z \in WallClockYears : y <= z}
    /\ t_out = NoneDF
    /\ t_src = <<>>
    /\ t_out2 = NoneDF
    /\ t_arg = t_in
    /\ l_pc = "idle"
    /\ l_df = NoneDF
    /\ l_mode = "replace"
    /\ l_up = FALSE
    /\ l_prior = NoTable
    /\ l_res = NoLoadResult
    /\ a_pc = "idle"
    /\ a_attempt = 0
    /\ a_requests = <<>>
    /\ a_log = <<>>
    /\ a_ret = NoneDF
    /\ u_dirs = {}
    /\ u_files = <<>>
    /\ u_log = <<>>
    /\ u_last = [op |-> "none", fault |-> "none", raised |-> FALSE]
    /\ u_calls = 0

\* df_transformed = transform_netflix_data(df)
TransformOnce ==
    /\ t_pc = "input"
    /\ t_pc' = "once"
    /\ t_out' = transform_call(t_in, current_year).ret
    /\ t_arg' = transform_call(t_in, current_year).arg
    /\ t_src' = IF t_in.none \/ df_empty(t_in) THEN <<>>
                ELSE LET pre == final_sorted(transform_passes(t_in.rows, current_year))
                     IN [k \in 1..Len(pre) |-> pre[k].index]
    /\ UNCHANGED <<pvars, lvars, avars, uvars, current_year, t_in, t_out2>>

\* transform_netflix_data(df_transformed)
TransformAgain ==
    /\ t_pc = "once"
    /\ t_pc' = "twice"
    /\ t_out2' = transform_call(t_out, current_year).ret
    /\ t_out' = transform_call(t_out, current_year).arg
    /\ UNCHANGED <<pvars, lvars, avars, uvars, current_year, t_in, t_src, t_arg>>

NextT ==
    \/ TransformOnce
    \/ TransformAgain

SpecT == InitT /\ [][NextT]_vars

\* ------------------------------------------------------------------------
\* load_to_postgres applied to a table, in each mode, on each destination
\* ------------------------------------------------------------------------
InitL ==
    /\ state = "not_started"
    /\ csv_file = MissingFile
    /\ db_up = FALSE
    /\ db_table = NoTable
    /\ reads = <<>>
    /\ load_report = NoLoadReport
    /\ raw_data = NoneDF
    /\ transformed_data = NoneDF
    /\ pipeline_start_time = NoneTime
    /\ pipeline_end_time = NoneTime
    /\ pipeline_report = EmptyReport
    /\ report_files = 0
    /\ clock = 0
    /\ invoked = <<>>
    /\ result = [s \in StageSet |-> "none"]
    /\ failed_at = ""
    /\ viz = [chart_ok |-> TRUE, report_ok |-> TRUE, attempted |-> <<>>]
    /\ error_log = <<>>
    /\ ret = "none"
    /\ exit_status = NoExit
    /\ current_year \in WallClockYears
    /\ t_pc = "idle"
    /\ t_in = NoneDF
    /\ t_out = NoneDF
    /\ t_src = <<>>
    /\ t_out2 = NoneDF
    /\ t_arg = NoneDF
    /\ l_pc = "input"
    /\ l_df \in LoadInputs
    /\ l_mode \in {"replace", "append", "fail"}
    /\ l_up \in BOOLEAN
    /\ l_prior \in PriorTables
    /\ l_res = NoLoadResult
    /\ a_pc = "idle"
    /\ a_attempt = 0
    /\ a_requests = <<>>
    /\ a_log = <<>>
    /\ a_ret = NoneDF
    /\ u_dirs = {}
    /\ u_files = <<>>
    /\ u_log = <<>>
    /\ u_last = [op |-> "none", fault |-> "none", raised |-> FALSE]
    /\ u_calls = 0

\* load_to_postgres(df, table_name, if_exists=if_exists); the destination
\* table afterwards is l_res.table
LoadToPostgres ==
    /\ l_pc = "input"
    /\ l_pc' = "returned"
    /\ \E fault \in LoadFaults :
          l_res' = load_to_postgres(l_df, l_mode, l_up, l_prior, fault)
    /\ UNCHANGED <<pvars, tvars, avars, uvars, current_year, l_df, l_mode, l_up, l_prior>>

NextL == LoadToPostgres

SpecL == InitL /\ [][NextL]_vars

\* ------------------------------------------------------------------------
\* extract_from_api
\* ------------------------------------------------------------------------
RETRY_COUNT == 3

\* how a request ends: requests.get or raise_for_status raises, response.json
\* or pd.DataFrame raises, or a table is made from the response
ApiResponses ==
    {[kind |-> k, df |-> NoneDF] : k \in {"Timeout", "RequestException", "ValueError", "Exception"}}
    \cup {[kind |-> "ok", df |-> DF(t)] : t \in {<<>>, reset_index(<<BaseRow>>)}}

\* the messages of the except clauses; which clause catches the error of
\* response.json depends on the version of requests, where JSONDecodeError is
\* a ValueError and in later versions a RequestException too
except_messages(kind) ==
    IF kind = "Timeout" THEN {"API request timeout"}
    ELSE IF kind = "RequestException" THEN {"API request failed"}
    ELSE IF kind = "ValueError" THEN {"Invalid JSON response", "API request failed"}
    ELSE {"Unexpected error during API extraction"}

\* a loop that makes one request more
in_range_inclusive(attempt) == attempt <= RETRY_COUNT

\* for attempt in range(RETRY_COUNT)
in_range(attempt) == attempt < RETRY_COUNT

\* one pass of the loop body
api_attempt(resp, msg) ==
    IF resp.kind = "ok"
    THEN IF resp.df.none \/ df_empty(resp.df)
         THEN [returns |-> TRUE, ret |-> NoneDF,
               errs |-> <<"Dados estao vazios", "API returned invalid data">>]
         ELSE [returns |-> TRUE, ret |-> resp.df, errs |-> <<>>]
    ELSE [returns |-> FALSE, ret |-> NoneDF, errs |-> <<msg>>]

InitA ==
    /\ state = "not_started"
    /\ csv_file = MissingFile
    /\ db_up = FALSE
    /\ db_table = NoTable
    /\ reads = <<>>
    /\ load_report = NoLoadReport
    /\ raw_data = NoneDF
    /\ transformed_data = NoneDF
    /\ pipeline_start_time = NoneTime
    /\ pipeline_end_time = NoneTime
    /\ pipeline_report = EmptyReport
    /\ report_files = 0
    /\ clock = 0
    /\ invoked = <<>>
    /\ result = [s \in StageSet |-> "none"]
    /\ failed_at = ""
    /\ viz = [chart_ok |-> TRUE, report_ok |-> TRUE, attempted |-> <<>>]
    /\ error_log = <<>>
    /\ ret = "none"
    /\ exit_status = NoExit
    /\ current_year \in {y \in WallClockYears : \A z \in WallClockYears : y <= z}
    /\ t_pc = "idle"
    /\ t_in = NoneDF
    /\ t_out = NoneDF
    /\ t_src = <<>>
    /\ t_out2 = NoneDF
    /\ t_arg = NoneDF
    /\ l_pc = "idle"
    /\ l_df = NoneDF
    /\ l_mode = "replace"
    /\ l_up = FALSE
    /\ l_prior = NoTable
    /\ l_res = NoLoadResult
    /\ a_pc = "loop"
    /\ a_attempt = 0
    /\ a_requests = <<>>
    /\ a_log = <<>>
    /\ a_ret = NoneDF
    /\ u_dirs = {}
    /\ u_files = <<>>
    /\ u_log = <<>>
    /\ u_last = [op |-> "none", fault |-> "none", raised |-> FALSE]
    /\ u_calls = 0

\* the body of the loop: a request and what follows from its end
ApiRequest ==
    /\ a_pc = "loop"
    /\ in_range(a_attempt)
    /\ \E resp \in ApiResponses :
         \E msg \in except_messages(resp.kind) :
            LET a == api_attempt(resp, msg)
            IN /\ a_requests' = Append(a_requests, resp.kind)
               /\ a_log' = a_log \o a.errs
               /\ a_ret' = a.ret
               /\ a_pc' = IF a.returns THEN "returned" ELSE "loop"
               /\ a_attempt' = IF a.returns THEN a_attempt ELSE a_attempt + 1
    /\ UNCHANGED <<pvars, tvars, lvars, uvars, current_year>>

\* after the loop: handle_error(...); return None
ApiGiveUp ==
    /\ a_pc = "loop"
    /\ ~in_range(a_attempt)
    /\ a_log' = Append(a_log, "Failed to extract data from API after attempts")
    /\ a_ret' = NoneDF
    /\ a_pc' = "returned"
    /\ UNCHANGED <<pvars, tvars, lvars, uvars, current_year, a_attempt, a_requests>>

NextA ==
    \/ ApiRequest
    \/ ApiGiveUp

\* a request ends, with a response or an exception, and the interpreter goes
\* on to the next statement
SpecA == InitA /\ [][NextA]_vars /\ WF_vars(NextA)

\* ------------------------------------------------------------------------
\* utils: tratar_erro, salvar_arquivo (save_to_file), criar_diretorio
\* (create_directory)
\* ------------------------------------------------------------------------
MaxCalls == 3

\* def tratar_erro(error: str), called with the arguments args: a call with
\* another number of arguments raises TypeError before the body is run
tratar_erro(args) ==
    IF Len(args) = 1
    THEN [raised |-> FALSE, log |-> <<<<"ERROR", args[1]>>>>]
    ELSE [raised |-> TRUE, log |-> <<>>]

\* the file system: the directories that exist and the contents of the files
\* that exist.  fault names the step that raises an OSError: mkdir, open or
\* write
salvar_arquivo(data, filename, dirs, files, fault) ==
    LET made == dirs \cup {filename.parent}
        opened == [f \in (DOMAIN files) \cup {filename} |->
                      IF f = filename THEN "" ELSE files[f]]
        written == [f \in DOMAIN opened |-> IF f = filename THEN data ELSE opened[f]]
        h == tratar_erro(<<"Erro ao salvar arquivo", "e">>)
    IN IF fault = "mkdir"
       THEN [dirs |-> dirs, files |-> files, log |-> h.log, raised |-> h.raised]
       ELSE IF fault = "open"
       THEN [dirs |-> made, files |-> files, log |-> h.log, raised |-> h.raised]
       ELSE IF fault = "write"
       THEN [dirs |-> made, files |-> opened, log |-> h.log, raised |-> h.raised]
       ELSE [dirs |-> made, files |-> written,
             log |-> <<<<"SUCCESS", "Arquivo salvo com sucesso">>>>, raised |-> FALSE]

criar_diretorio(path, dirs, fault) ==
    LET h == tratar_erro(<<"Erro ao criar diretorio", "e">>)
    IN IF fault = "mkdir"
       THEN [dirs |-> dirs, log |-> h.log, raised |-> h.raised]
       ELSE [dirs |-> dirs \cup {path},
             log |-> <<<<"INFO", "Diretorio criado/verificado">>>>, raised |-> FALSE]

InitU ==
    /\ state = "not_started"
    /\ csv_file = MissingFile
    /\ db_up = FALSE
    /\ db_table = NoTable
    /\ reads = <<>>
    /\ load_report = NoLoadReport
    /\ raw_data = NoneDF
    /\ transformed_data = NoneDF
    /\ pipeline_start_time = NoneTime
    /\ pipeline_end_time = NoneTime
    /\ pipeline_report = EmptyReport
    /\ report_files = 0
    /\ clock = 0
    /\ invoked = <<>>
    /\ result = [s \in StageSet |-> "none"]
    /\ failed_at = ""
    /\ viz = [chart_ok |-> TRUE, report_ok |-> TRUE, attempted |-> <<>>]
    /\ error_log = <<>>
    /\ ret = "none"
    /\ exit_status = NoExit
    /\ current_year \in {y \in WallClockYears : \A z \in WallClockYears : y <= z}
    /\ t_pc = "idle"
    /\ t_in = NoneDF
    /\ t_out = NoneDF
    /\ t_src = <<>>
    /\ t_out2 = NoneDF
    /\ t_arg = NoneDF
    /\ l_pc = "idle"
    /\ l_df = NoneDF
    /\ l_mode = "replace"
    /\ l_up = FALSE
    /\ l_prior = NoTable
    /\ l_res = NoLoadResult
    /\ a_pc = "idle"
    /\ a_attempt = 0
    /\ a_requests = <<>>
    /\ a_log = <<>>
    /\ a_ret = NoneDF
    /\ u_dirs = {}
    /\ u_files = <<>>
    /\ u_log = <<>>
    /\ u_last = [op |-> "none", fault |-> "none", raised |-> FALSE]
    /\ u_calls = 0

\* save_to_file(data, filename)
SaveToFile ==
    /\ u_calls < MaxCalls
    /\ \E data \in {"x", "y"},
          filename \in {[parent |-> "reports", name |-> "a.txt"],
                        [parent |-> "logs", name |-> "b.txt"]},
          fault \in {"none", "mkdir", "open", "write"} :
          LET c == salvar_arquivo(data, filename, u_dirs, u_files, fault)
          IN /\ u_dirs' = c.dirs
             /\ u_files' = c.files
             /\ u_log' = u_log \o c.log
             /\ u_last' = [op |-> "save_to_file", fault |-> fault, raised |-> c.raised]
    /\ u_calls' = u_calls + 1
    /\ UNCHANGED <<pvars, tvars, lvars, avars, current_year>>

\* create_directory(path)
CreateDirectory ==
    /\ u_calls < MaxCalls
    /\ \E path \in {"reports", "logs"}, fault \in {"none", "mkdir"} :
          LET c == criar_diretorio(path, u_dirs, fault)
          IN /\ u_dirs' = c.dirs
             /\ u_log' = u_log \o c.log
             /\ u_last' = [op |-> "create_directory", fault |-> fault, raised |-> c.raised]
    /\ u_calls' = u_calls + 1
    /\ UNCHANGED <<pvars, tvars, lvars, avars, current_year, u_files>>

NextU ==
    \/ SaveToFile
    \/ CreateDirectory

SpecU == InitU /\ [][NextU]_vars

\* ------------------------------------------------------------------------
\* Properties of the orchestrator (checked under Spec)
\* ------------------------------------------------------------------------
Logged(msg) == \E i \in 1..Len(error_log) : error_log[i] = msg
AllStagesSucceeded == \A s \in StageSet : result[s] = "ok"
Returned == ret # "none"

\* C1: the stages are invoked in the order Extract, Transform, Load, Report; a
\* stage is invoked only if every earlier stage reported success; the first
\* stage that reports failure is the last one invoked and the run returns False.
StagesInOrderStopAtFirstFailure ==
    /\ Len(invoked) <= Len(Stages)
    /\ \A i \in 1..Len(invoked) : invoked[i] = Stages[i]
    /\ \A i \in 2..Len(invoked) : result[invoked[i - 1]] = "ok"
    /\ \A i \in 1..Len(invoked) :
          result[invoked[i]] = "fail" => (i = Len(invoked) /\ ret = "False")

\* extract and transform succeeded, load reported failure, the run returned False
LoadFailedAfterTwoStages ==
    /\ invoked = <<"extract", "transform", "load">>
    /\ result["load"] = "fail"
    /\ ret = "False"

\* C2: when all four stages report success on a freshly constructed pipeline,
\* run_full_pipeline reaches the succeeded state and returns True.
FullSuccessReturnsTrue ==
    (Returned /\ AllStagesSucceeded) => (state = "succeeded" /\ ret = "True")

\* C3: on full success exactly one run report is emitted, recording start time,
\* end time, duration = end - start >= 0, the row counts and status SUCCESS; a
\* run in which a stage failed emits no run report.
RunReportOnFullSuccess ==
    Returned =>
        IF AllStagesSucceeded
        THEN /\ report_files = 1
             /\ pipeline_report.status = "SUCCESS"
             /\ pipeline_report.start_time = pipeline_start_time
             /\ pipeline_report.end_time # NoneTime
             /\ pipeline_report.duration_seconds
                    = pipeline_report.end_time - pipeline_report.start_time
             /\ pipeline_report.duration_seconds >= 0
             /\ pipeline_report.raw_data_rows = Len(raw_data.rows)
             /\ pipeline_report.transformed_data_rows = Len(transformed_data.rows)
        ELSE report_files = 0 /\ pipeline_report = EmptyReport

\* C4: a failure inside chart generation or analysis-report generation is
\* logged, the other report step is still attempted, and _generate_reports
\* returns True: the run does not fail at the reporting stage.
ReportFailuresAreNotFatal ==
    result["report"] # "none" =>
        /\ result["report"] = "ok"
        /\ viz.attempted = <<"dashboard", "analysis_report">>
        /\ failed_at # "report"
        /\ ~viz.chart_ok => Logged("Error creating dashboard")
        /\ ~viz.report_ok => Logged("Error generating analysis report")

\* the reporting stage ran and chart generation failed inside it
ChartGenerationFailed ==
    /\ result["report"] # "none"
    /\ ~viz.chart_ok
    /\ viz.report_ok

\* C5: a failed run started from the entry point logs an error line and ends
\* the process with a non-zero exit status; the status is zero only on success.
FailedRunExitsNonZero ==
    exit_status # NoExit =>
        /\ ret = "False" => (exit_status # 0 /\ Logged("Netflix ETL Pipeline failed!"))
        /\ exit_status = 0 => ret = "True"

\* C6: run_full_pipeline never lets an exception through: an exception raised
\* while a stage or the run-report creation executes ends as a logged error
\* and the return value False.
NoExceptionEscapes ==
    /\ ret # "raise"
    /\ ((\E s \in StageSet : result[s] = "raise") \/ failed_at = "create_report")
          => (ret = "False" /\ Logged("Pipeline failed with unexpected error"))

\* the transform stage raised (the frame has no 'title' column) and the run
\* returned False
TransformRaisedAndRunReturnedFalse ==
    /\ result["transform"] = "raise"
    /\ ret = "False"

\* ------------------------------------------------------------------------
\* Properties of transform_netflix_data (checked under SpecT)
\* ------------------------------------------------------------------------
Transformed == t_pc \in {"once", "twice"} /\ ~t_out.none

\* C7: the output of transform_netflix_data has at most as many rows as its
\* non-empty input, and every output row comes from an input row of its own.
TransformNeverAddsRows ==
    Transformed =>
        /\ Len(t_out.rows) <= Len(t_in.rows)
        /\ Len(t_src) = Len(t_out.rows)
        /\ \A k \in 1..Len(t_src) : t_src[k] \in 0..(Len(t_in.rows) - 1)
        /\ \A k, l \in 1..Len(t_src) : k # l => t_src[k] # t_src[l]
        /\ \A k \in 1..Len(t_src) :
              /\ t_out.rows[k].show_id = t_in.rows[t_src[k] + 1].show_id
              /\ t_out.rows[k].type = t_in.rows[t_src[k] + 1].type

\* a table of three rows of which the transform dropped some but not all
SomeRowsDropped ==
    /\ Transformed
    /\ Len(t_in.rows) = 3
    /\ Len(t_out.rows) \in {1, 2}

\* C8: applying transform_netflix_data to its own non-empty output removes no row.
RetransformRemovesNoRow ==
    (t_pc = "twice" /\ ~t_out.none /\ ~df_empty(t_out)) =>
        (~t_out2.none /\ Len(t_out2.rows) = Len(t_out.rows))

\* C9: in every row of the output the identifier, the type and the title are
\* present.
CriticalFieldsPresent ==
    Transformed =>
        \A k \in 1..Len(t_out.rows) :
            /\ t_out.rows[k].show_id # NaN
            /\ t_out.rows[k].type # NaN
            /\ t_out.rows[k].title # NaN

\* C10: in the output, rows with a date_added precede rows without one, dates
\* are non-decreasing, rows with equal (or equally missing) date_added are in
\* ascending identifier order, and the index is 0..n-1.
SortedByDateThenId ==
    Transformed =>
        /\ \A i \in 1..Len(t_out.rows) : t_out.rows[i].index = i - 1
        /\ \A i, j \in 1..Len(t_out.rows) :
              i < j =>
                LET a == t_out.rows[i].date_added
                    b == t_out.rows[j].date_added
                IN /\ a.dt /\ b.dt
                   /\ a.d = NaT => b.d = NaT
                   /\ (a.d # NaT /\ b.d # NaT) => a.d <= b.d
                   /\ a.d = b.d => ~StrLess(t_out.rows[j].show_id, t_out.rows[i].show_id)

\* three output rows: dated and undated ones, and two rows of equal date_added
\* that stood in the opposite order in the input
SortReorderedRows ==
    /\ Transformed
    /\ Len(t_out.rows) = 3
    /\ t_out.rows[1].date_added.d # NaT
    /\ t_out.rows[3].date_added.d = NaT
    /\ \E i, j \in 1..3 :
          /\ i < j
          /\ t_out.rows[i].date_added.d = t_out.rows[j].date_added.d
          /\ t_out.rows[i].show_id # t_out.rows[j].show_id
          /\ t_src[i] > t_src[j]

\* ------------------------------------------------------------------------
\* Row accounting from the file to the load report (checked under Spec)
\* ------------------------------------------------------------------------
\* the distinct rows of a frame whose identifier, title and type are present
CompleteRows(f) ==
    {Cols(f.rows[i]) : i \in {k \in 1..Len(f.rows) :
                                \A c \in critical_columns : ~isna(f.rows[k], c)}}

\* a row after the date, text, feature and categorical passes
Normalised(r, year) == Cols(transform_passes(<<r>>, year)[1])

LoadReportComplete ==
    result["load"] = "ok" =>
        /\ load_report.made
        /\ load_report.loaded_rows = Len(transformed_data.rows)
        /\ load_report.load_success_rate.num = 100 * load_report.load_success_rate.den

\* C11 as claimed: the output has exactly one row per distinct input row whose
\* identifier, title and type are present, and the report of the default load
\* of the output has loaded_rows equal to the output row count and a success
\* ratio of 100%.
OneRowPerDistinctCompleteInputRow ==
    /\ result["transform"] = "ok" =>
          Len(transformed_data.rows) = Cardinality(CompleteRows(raw_data))
    /\ LoadReportComplete

\* C11: the output has at most one row per distinct input row whose
\* identifier, title and type are present, and exactly one per distinct such
\* row once the rows are normalised by the passes (rows that the passes make
\* equal are kept once; the 10-row input with 2 exact duplicates and 1 row
\* without identifier yields 7 rows); the report of the default load of the
\* output has loaded_rows equal to the output row count and a success ratio of
\* 100%.
OneRowPerDistinctNormalisedRow ==
    /\ result["transform"] = "ok" =>
          /\ Len(transformed_data.rows) <= Cardinality(CompleteRows(raw_data))
          /\ Len(transformed_data.rows) =
                Cardinality({Normalised(r, current_year) : r \in CompleteRows(raw_data)})
          /\ raw_data.rows = ScenarioTable => Len(transformed_data.rows) = 7
    /\ LoadReportComplete

\* the 10-row input was transformed to 7 rows and loaded
ScenarioLoaded ==
    /\ raw_data.rows = ScenarioTable
    /\ result["load"] = "ok"
    /\ Len(transformed_data.rows) = 7
    /\ load_report.loaded_rows = 7
    /\ Len(db_table.rows) = 7

\* ------------------------------------------------------------------------
\* Properties of extract_netflix_data (checked under Spec)
\* ------------------------------------------------------------------------
Extracted == result["extract"] # "none"

\* the file is missing, unreadable, empty or lacks a required column
FileUnusable ==
    \/ ~csv_file.exists
    \/ csv_file.utf8 = "error"
    \/ (csv_file.utf8 = "decode_error" /\ csv_file.latin1 = "error")
    \/ csv_file.frame.none
    \/ df_empty(csv_file.frame)
    \/ ~csv_file.frame.has_title

\* C12: extract_netflix_data returns a table only if the table is non-empty
\* and has every required column; when the file is missing, unreadable, empty
\* or lacks a required column, also when read under the fallback encoding, it
\* returns None.
ExtractReturnsOnlyValidatedTables ==
    Extracted =>
        /\ ~raw_data.none => (~df_empty(raw_data) /\ raw_data.has_title)
        /\ FileUnusable => raw_data.none

\* C13: a missing file is not read; an existing file is read once as UTF-8;
\* a second read, under latin-1, is made exactly when the first read failed
\* with a decode error; there is no third read; a failed second read and a
\* non-decode error of the first read return None.
ReadProtocol ==
    Extracted =>
        /\ ~csv_file.exists => (reads = <<>> /\ raw_data.none)
        /\ csv_file.exists => (Len(reads) \in {1, 2} /\ reads[1] = "utf-8")
        /\ Len(reads) = 2 <=> (csv_file.exists /\ csv_file.utf8 = "decode_error")
        /\ Len(reads) = 2 => reads[2] = "latin-1"
        /\ (csv_file.exists /\ csv_file.utf8 = "decode_error" /\ csv_file.latin1 = "error")
              => raw_data.none
        /\ (csv_file.exists /\ csv_file.utf8 = "error")
              => (raw_data.none /\ reads = <<"utf-8">>)

\* the UTF-8 read failed with a decode error and the latin-1 read failed too
FallbackReadFailed ==
    /\ Extracted
    /\ csv_file.utf8 = "decode_error"
    /\ reads = <<"utf-8", "latin-1">>
    /\ raw_data.none
    /\ result["extract"] = "fail"

\* ------------------------------------------------------------------------
\* Properties of load_to_postgres (checked under SpecL)
\* ------------------------------------------------------------------------
LoadReturned == l_pc = "returned"

\* the step was begun / was begun and did not raise
Began(step) == \E i \in 1..Len(l_res.steps) : l_res.steps[i] = step
Completed(step) == Began(step) /\ l_res.failed # step

\* the columns that hold text, and the columns that hold numbers
TextColumns ==
    {"show_id", "type", "title", "director", "cast", "country", "rating", "duration",
     "listed_in", "description", "duration_unit", "rating_category", "primary_country",
     "primary_genre", "date_added_day_of_week"}
NumberColumns ==
    {"decade", "date_added_year", "date_added_month", "duration_value", "cast_count",
     "director_count", "country_count", "listed_in_count", "content_age_when_added",
     "description_length", "description_word_count", "genre_diversity"}

\* the stored row holds the cells of the frame's row, a missing text cell as
\* NULL and an infinite number as a missing number
StoredAs(stored, r) ==
    /\ DOMAIN stored = (DOMAIN r) \ {"index"}
    /\ \A c \in DOMAIN stored :
          \/ stored[c] = r[c]
          \/ (c \in TextColumns /\ stored[c] = PyNone /\ r[c] \in {NaN, T_nan})
          \/ (c \in NumberColumns /\ stored[c] = NaNnum /\ r[c] \in {Inf, -Inf})

\* rows from..from+Len(df)-1 of the table are the rows of the frame, in order
HoldsFrameAt(rows, from, df) ==
    /\ Len(rows) >= from - 1 + Len(df)
    /\ \A i \in 1..Len(df) : StoredAs(rows[from - 1 + i], df[i])

\* C14: after load_to_postgres returned True in 'replace' mode the destination
\* holds exactly the rows of the input and none of its prior rows, and the
\* verified row count is the input row count; in 'append' mode it holds the
\* prior rows followed by the input rows.
ReplaceHoldsInputAppendFollowsPrior ==
    (LoadReturned /\ l_res.ok) =>
        /\ l_mode = "replace" =>
              /\ Len(l_res.table.rows) = Len(l_df.rows)
              /\ HoldsFrameAt(l_res.table.rows, 1, l_df.rows)
              /\ \A i \in 1..Len(l_res.table.rows) :
                    \A j \in 1..Len(l_prior.rows) :
                        l_res.table.rows[i].show_id # l_prior.rows[j].show_id
              /\ l_res.report.loaded_rows = Len(l_df.rows)
        /\ l_mode = "append" =>
              /\ Len(l_res.table.rows) = Len(l_prior.rows) + Len(l_df.rows)
              /\ SubSeq(l_res.table.rows, 1, Len(l_prior.rows)) = l_prior.rows
              /\ HoldsFrameAt(l_res.table.rows, Len(l_prior.rows) + 1, l_df.rows)

\* a two-row frame replaced the row of an earlier load
ReplacedPriorContents ==
    /\ LoadReturned
    /\ l_res.ok
    /\ l_mode = "replace"
    /\ l_prior.rows # <<>>
    /\ Len(l_df.rows) = 2
    /\ Len(l_res.table.rows) = 2

\* C15: load_to_postgres never raises and reports every failure as False: a
\* None or empty input before a connection is opened, a failed connection
\* test before a write is attempted, an error of the write or of the row
\* count; it returns True only if connection test, write and row count all
\* completed.
LoadFailuresAreFalse ==
    LoadReturned =>
        /\ ~l_res.raised
        /\ (l_df.none \/ df_empty(l_df)) =>
              (~l_res.ok /\ ~Began("create_engine") /\ ~Began("connect"))
        /\ (~l_up \/ l_res.failed = "connect") => (~l_res.ok /\ ~Began("to_sql"))
        /\ l_res.failed \in {"to_sql", "count"} => ~l_res.ok
        /\ l_res.ok => (Completed("connect") /\ Completed("to_sql") /\ Completed("count"))

\* to_sql raised ValueError (mode 'fail', the table exists): the call logged
\* an unexpected error and returned False
UnexpectedErrorReturnedFalse ==
    /\ LoadReturned
    /\ l_mode = "fail"
    /\ l_res.failed = "to_sql"
    /\ l_res.errs = <<"Unexpected error during load">>
    /\ ~l_res.ok
    /\ ~l_res.raised

\* C16: on every exit of load_to_postgres on which an engine was created, the
\* engine is disposed, once, as the last step before the return.
EngineDisposedOnEveryExit ==
    LoadReturned =>
        LET disposals == Cardinality({i \in 1..Len(l_res.steps) : l_res.steps[i] = "dispose"})
        IN IF Completed("create_engine")
           THEN disposals = 1 /\ l_res.steps[Len(l_res.steps)] = "dispose"
           ELSE disposals = 0

\* the row count query failed after the write: the engine was disposed
EngineDisposedAfterCountError ==
    /\ LoadReturned
    /\ l_res.failed = "count"
    /\ ~l_res.ok
    /\ l_res.steps = <<"create_engine", "connect", "to_sql", "count", "dispose">>

\* ------------------------------------------------------------------------
\* Derived fields of the output rows (checked under SpecT)
\* ------------------------------------------------------------------------
OutRows == {t_out.rows[k] : k \in 1..Len(t_out.rows)}

\* the lookup table of the rating codes
RatingTable ==
    {<<R_G, C_Kids>>, <<R_TV_Y, C_Kids>>, <<R_TV_Y7, C_Kids>>, <<R_TV_Y7_FV, C_Kids>>,
     <<R_PG, C_Family>>, <<R_TV_G, C_Family>>, <<R_TV_PG, C_Family>>,
     <<R_PG_13, C_Teen>>, <<R_TV_14, C_Teen>>,
     <<R_R, C_Adult>>, <<R_TV_MA, C_Adult>>, <<R_NC_17, C_Adult>>}

\* C17: in every output row rating_category is the entry of the fixed lookup
\* table for the cleaned rating code, compared exactly, and 'Other' for a
\* code without entry and for a missing code; it is never missing.
RatingCategoryIsFixedLookup ==
    Transformed =>
        \A r \in OutRows :
            /\ r.rating_category # NaN
            /\ \A p \in RatingTable : r.rating = p[1] => r.rating_category = p[2]
            /\ (\A p \in RatingTable : r.rating # p[1]) => r.rating_category = C_Other

\* output rows with the code in lower case, with a missing code and with a
\* mapped code
UnmappedAndMissingCodesAreOther ==
    /\ Transformed
    /\ \E r \in OutRows : r.rating \in {<<"p", "g">>, NaN} /\ r.rating_category = C_Other
    /\ \E r \in OutRows : r.rating = R_PG_13 /\ r.rating_category = C_Teen

\* the decimal value of s[first..last]
RECURSIVE DecimalValue(_, _, _)
DecimalValue(s, first, last) ==
    IF first > last THEN 0
    ELSE 10 * DecimalValue(s, first, last - 1) + DigitVal(s[last])

\* the value of the first run of decimal digits of s, missing if there is none
FirstDigitRun(s) ==
    LET digits == {i \in 1..Len(s) : IsDigit(s[i])}
    IN IF s = NaN \/ digits = {} THEN NaNnum
       ELSE LET first == CHOOSE i \in digits : \A j \in digits : i <= j
                last == CHOOSE j \in first..Len(s) :
                            /\ \A m \in first..j : m \in digits
                            /\ (j + 1) \notin digits
            IN DecimalValue(s, first, last)

HasSuffix(s, u) ==
    /\ s # NaN
    /\ \E pre \in 0..Len(s) : Len(s) = pre + Len(u) /\ \A i \in 1..Len(u) : s[pre + i] = u[i]

\* C18: duration_value is the first run of decimal digits of the duration
\* string, missing if there is none; duration_unit is 'min', 'Season' or
\* 'Seasons' exactly when the string ends with that suffix and is missing
\* otherwise; is_movie iff the unit is 'min', is_tv_show iff the unit is
\* 'Season' or 'Seasons'.
DurationParsed ==
    Transformed =>
        \A r \in OutRows :
            /\ r.duration_value = FirstDigitRun(r.duration)
            /\ \A u \in {U_min, U_Season, U_Seasons} :
                  r.duration_unit = u <=> HasSuffix(r.duration, u)
            /\ r.duration_unit \in {U_min, U_Season, U_Seasons, NaN}
            /\ r.is_movie <=> r.duration_unit = U_min
            /\ r.is_tv_show <=> r.duration_unit \in {U_Season, U_Seasons}
            /\ r.duration = <<"9", "0", " ", "m", "i", "n">> =>
                  (r.duration_value = 90 /\ r.duration_unit = U_min /\ r.is_movie)
            /\ r.duration = <<"3", " ", "S", "e", "a", "s", "o", "n", "s">> =>
                  (r.duration_value = 3 /\ r.duration_unit = U_Seasons /\ r.is_tv_show)

\* an output row "3 Seasons"
SeasonsRowParsed ==
    /\ Transformed
    /\ \E r \in OutRows :
          /\ r.duration = <<"3", " ", "S", "e", "a", "s", "o", "n", "s">>
          /\ r.duration_value = 3
          /\ r.duration_unit = U_Seasons
          /\ r.is_tv_show
          /\ ~r.is_movie

\* C19: in every output row with a release year y, decade is the multiple of
\* 10 with decade <= y < decade + 10; decade is missing exactly when the
\* release year is missing.
DecadeIsFloorOfYear ==
    Transformed =>
        \A r \in OutRows :
            /\ r.release_year.isnum
            /\ r.decade = NaNnum <=> r.release_year.n = NaNnum
            /\ r.release_year.n # NaNnum =>
                  /\ r.decade % 10 = 0
                  /\ r.decade <= r.release_year.n
                  /\ r.release_year.n < r.decade + 10
            /\ r.release_year.n = 1994 => r.decade = 1990
            /\ r.release_year.n = 2005 => r.decade = 2000

\* an output row of the year 2005
Year2005InDecade2000 ==
    /\ Transformed
    /\ \E r \in OutRows : r.release_year.n = 2005 /\ r.decade = 2000

\* the part of s before its first comma
BeforeFirstComma(s) ==
    LET commas == {i \in 1..Len(s) : s[i] = ","}
        first == IF commas = {} THEN Len(s) + 1
                 ELSE CHOOSE i \in commas : \A j \in commas : i <= j
    IN SubSeq(s, 1, first - 1)

\* p is s without the blanks at its two ends
IsTrimOf(p, s) ==
    /\ p # <<>> => (p[1] # " " /\ p[Len(p)] # " ")
    /\ \E a \in 0..Len(s) :
          /\ a + Len(p) <= Len(s)
          /\ \A i \in 1..Len(p) : s[a + i] = p[i]
          /\ \A i \in 1..Len(s) : (i <= a \/ i > a + Len(p)) => s[i] = " "

CommaCount(s) == Cardinality({i \in 1..Len(s) : s[i] = ","})

\* C20: for a present country list primary_country is its first
\* comma-separated token without surrounding blanks, and is_international
\* holds iff the list has a comma (it is false for a missing country); for a
\* present genre list primary_genre is its first token without surrounding
\* blanks and genre_diversity is the number of commas plus one (0 for a
\* missing genre list).
PrimaryTokensExtracted ==
    Transformed =>
        \A r \in OutRows :
            /\ r.country # NaN =>
                  /\ r.primary_country # NaN
                  /\ IsTrimOf(r.primary_country, BeforeFirstComma(r.country))
                  /\ r.is_international <=> CommaCount(r.country) > 0
            /\ r.country = NaN => ~r.is_international
            /\ r.listed_in # NaN =>
                  /\ r.primary_genre # NaN
                  /\ IsTrimOf(r.primary_genre, BeforeFirstComma(r.listed_in))
                  /\ r.genre_diversity = CommaCount(r.listed_in) + 1
            /\ r.listed_in = NaN => r.genre_diversity = 0

\* an output row whose country list has two entries and a blank before the
\* comma
FirstOfTwoCountriesTrimmed ==
    /\ Transformed
    /\ \E r \in OutRows :
          /\ r.country = <<"B", " ", ",", "C">>
          /\ r.primary_country = <<"B">>
          /\ r.is_international

\* ------------------------------------------------------------------------
\* Properties of clean_text_columns and of the primary tokens (checked under
\* SpecT)
\* ------------------------------------------------------------------------
\* v is missing or a text with a first and a last character that are not
\* blank, and is not a placeholder
NormalisedText(v) ==
    \/ v = NaN
    \/ /\ v # T_empty
       /\ v[1] # " "
       /\ v[Len(v)] # " "
       /\ v \notin {T_nan, T_None}

\* C26: in every free-text column (title, director, cast, country, rating,
\* listed_in, description) of the transformed table each value is missing or a
\* non-empty text without leading or trailing whitespace that is not 'nan' or
\* 'None', for every input, placeholders surrounded by whitespace included.
FreeTextIsMissingOrNormalised ==
    Transformed =>
        \A r \in OutRows :
            \A c \in {"title", "director", "cast", "country", "rating", "listed_in",
                      "description"} :
                NormalisedText(r[c])

\* C27: a present country gives a non-empty primary_country and a present
\* genre list a non-empty primary_genre, also when the list begins with a
\* comma or has only blanks before its first comma.
PrimaryTokensAreNonEmpty ==
    Transformed =>
        \A r \in OutRows :
            /\ r.country # NaN => r.primary_country \notin {NaN, T_empty}
            /\ r.listed_in # NaN => r.primary_genre \notin {NaN, T_empty}

\* ------------------------------------------------------------------------
\* Properties of the load report (checked under SpecL)
\* ------------------------------------------------------------------------
\* C28: for every successful load, in every write mode and with every prior
\* content of the table, the success ratio of the load report is the verified
\* row count of the destination divided by the row count of the input, times
\* 100, and lies between 0 and 100.
SuccessRatioBetween0And100 ==
    (LoadReturned /\ l_res.ok) =>
        LET report == l_res.report
            rate == report.load_success_rate
        IN /\ report.made
           /\ report.loaded_rows = Len(l_res.table.rows)
           /\ rate.den = Len(l_df.rows)
           /\ rate.num = report.loaded_rows * 100
           /\ 0 <= rate.num
           /\ rate.num <= 100 * rate.den

\* ------------------------------------------------------------------------
\* Properties of the transform stage (checked under Spec)
\* ------------------------------------------------------------------------
\* the transform stage has run and transform_netflix_data has returned
TransformReturned == result["transform"] \in {"ok", "fail"}

\* C29: the transform stage returns None exactly when its input is None or
\* has no rows; when the input has rows and every row is dropped it returns an
\* empty table, the orchestrator records the stage as succeeded, and the run
\* then fails at the load stage, the load of an empty table returning False.
TransformNoneIffNoInputRows ==
    TransformReturned =>
        /\ transformed_data.none <=> (raw_data.none \/ df_empty(raw_data))
        /\ result["transform"] = "ok" <=> ~transformed_data.none
        /\ (~transformed_data.none /\ df_empty(transformed_data)) =>
              /\ ~df_empty(raw_data)
              /\ result["load"] # "none" =>
                    /\ result["load"] = "fail"
                    /\ failed_at = "load"
                    /\ ret = "False"
                    /\ ~load_report.made
                    /\ db_table = [exists |-> TRUE, rows |-> PriorRows]

\* a run whose only input row lacks the identifier has failed at the load
\* stage
EmptyTableFailedAtLoad ==
    /\ ~df_empty(raw_data)
    /\ transformed_data = DF(<<>>)
    /\ result["transform"] = "ok"
    /\ result["load"] = "fail"
    /\ state = "failed"

\* ------------------------------------------------------------------------
\* Properties of transform_dates (checked under SpecT)
\* ------------------------------------------------------------------------
\* the input row that the k-th output row was made from
SourceRow(k) == t_in.rows[t_src[k] + 1]

\* texts that are not a date: no date form, and days that the calendar does
\* not have
UnparseableDates ==
    {<<"x">>,
     <<"2", "0", "2", "1", "-", "0", "2", "-", "3", "0">>}

\* C22: date normalization fails on no row: a date_added that after trimming
\* is 'nan', 'None' or '', and a date_added that cannot be parsed, becomes
\* missing; date_added_year, date_added_month and date_added_day_of_week are
\* present exactly for the rows whose parsed date_added is present.
DatesCoercedToMissing ==
    Transformed =>
        \A k \in 1..Len(t_out.rows) :
            LET out == t_out.rows[k]
                text == SourceRow(k).date_added.s
            IN /\ out.date_added.dt
               /\ text = NaN => out.date_added.d = NaT
               /\ (text # NaN /\ \E p \in {T_nan, T_None, T_empty} : IsTrimOf(p, text))
                     => out.date_added.d = NaT
               /\ (text # NaN /\ \E p \in UnparseableDates : IsTrimOf(p, text))
                     => out.date_added.d = NaT
               /\ out.date_added.d # NaT <=> out.date_added_year # NaNnum
               /\ out.date_added.d # NaT <=> out.date_added_month # NaNnum
               /\ out.date_added.d # NaT <=> out.date_added_day_of_week # NaN
               /\ out.date_added.d # NaT =>
                     /\ out.date_added_year = out.date_added.d \div 10000
                     /\ out.date_added_month \in 1..12

\* an output with a row whose date_added 2021-02-30 became missing, next to a
\* row with a parsed date
ImpossibleDayBecameMissing ==
    /\ Transformed
    /\ \E k \in 1..Len(t_out.rows) :
          /\ SourceRow(k).date_added.s = <<"2", "0", "2", "1", "-", "0", "2", "-", "3", "0">>
          /\ t_out.rows[k].date_added = Dt(NaT)
          /\ t_out.rows[k].date_added_year = NaNnum
          /\ t_out.rows[k].date_added_day_of_week = NaN
    /\ \E r \in OutRows : r.date_added = Dt(20210925) /\ r.date_added_year = 2021

\* C23: every present release_year r of the output satisfies
\* 1900 <= r <= Y + 2, Y being the wall-clock year of the transform; a value
\* below 1900, above Y + 2 or not numeric becomes missing, and 1900 and Y + 2
\* themselves are kept; so the year 2029 is kept by a transform in 2027 and
\* becomes missing in 2026.
ReleaseYearWithin1900AndYPlus2 ==
    Transformed =>
        \A k \in 1..Len(t_out.rows) :
            LET r == t_out.rows[k].release_year
                c == SourceRow(k).release_year
                digits == ~c.isnum /\ c.s # T_empty /\ \A i \in 1..Len(c.s) : IsDigit(c.s[i])
                v == IF c.isnum THEN c.n
                     ELSE IF digits THEN DecimalValue(c.s, 1, Len(c.s)) ELSE NaNnum
            IN /\ r.isnum
               /\ r.n # NaNnum => (1900 <= r.n /\ r.n <= current_year + 2)
               /\ r.n # NaNnum <=> (v # NaNnum /\ 1900 <= v /\ v <= current_year + 2)
               /\ r.n # NaNnum => r.n = v
               /\ v = 2029 => (r.n = 2029 <=> current_year = 2027)

\* a transform in 2027 that kept the release year 2029
Year2029KeptIn2027 ==
    /\ Transformed
    /\ current_year = 2027
    /\ \E k \in 1..Len(t_out.rows) :
          /\ SourceRow(k).release_year = Num(2029)
          /\ t_out.rows[k].release_year = Num(2029)

\* ------------------------------------------------------------------------
\* The table given to transform_netflix_data (checked under SpecT)
\* ------------------------------------------------------------------------
\* C21: transform_netflix_data leaves the table it is given unchanged, with
\* the same rows, columns and values, whether it returns a new table or None;
\* a second call leaves the table of the first call unchanged as well, and the
\* raw table the orchestrator holds after the transform stage is the table
\* the extract stage returned.
TransformLeavesItsInputUnchanged ==
    /\ t_pc \in {"once", "twice"} => t_arg = t_in
    /\ t_pc = "twice" => t_out = transform_netflix_data(t_in, current_year)
    /\ result["transform"] # "none" => raw_data = extract_netflix_data(csv_file).df

\* a call that returned a table with fewer rows and other cells than the
\* table it was given, which is as before
InputKeptWhileRowsDropped ==
    /\ t_pc = "once"
    /\ ~t_out.none
    /\ Len(t_in.rows) = 3
    /\ Len(t_out.rows) = 1
    /\ t_in.rows[1].date_added # t_out.rows[1].date_added
    /\ t_arg = t_in

\* ------------------------------------------------------------------------
\* Properties of extract_from_api (checked under SpecA)
\* ------------------------------------------------------------------------
ApiFailures == {"Timeout", "RequestException", "ValueError", "Exception"}

\* the requests so far, their order and what was returned after them
ApiRequestsInTurn ==
    /\ Len(a_requests) <= RETRY_COUNT
    /\ \A i \in 1..(Len(a_requests) - 1) : a_requests[i] \in ApiFailures
    /\ a_pc = "loop" => \A i \in 1..Len(a_requests) : a_requests[i] \in ApiFailures
    /\ a_pc = "returned" =>
          /\ a_requests # <<>>
          /\ LET last == a_requests[Len(a_requests)]
             IN /\ ~a_ret.none => (last = "ok" /\ ~df_empty(a_ret))
                /\ a_ret.none =>
                      \/ last = "ok" /\ a_log[Len(a_log)] = "API returned invalid data"
                      \/ /\ last \in ApiFailures
                         /\ Len(a_requests) = RETRY_COUNT
                         /\ a_log[Len(a_log)] = "Failed to extract data from API after attempts"
             \* each failed request is logged once
          /\ Cardinality({i \in 1..Len(a_requests) : a_requests[i] \in ApiFailures})
                = Cardinality({i \in 1..Len(a_log) :
                                  a_log[i] \in UNION {except_messages(k) : k \in ApiFailures}})

\* C24: extract_from_api makes its requests one after another and at most
\* RETRY_COUNT (3) of them; a further request is made only after the one
\* before ended in a timeout, a request error, invalid JSON or another
\* exception; the first valid non-empty table is returned without a further
\* request, an empty table returns None at once, and RETRY_COUNT failed
\* requests return None; the call always returns.
ApiRetriesThenReturns == []ApiRequestsInTurn /\ <>(a_pc = "returned")

\* a call that returned the table of its third request after two failures
TableReturnedByThirdRequest ==
    /\ a_pc = "returned"
    /\ a_requests = <<"Timeout", "ValueError", "ok">>
    /\ ~a_ret.none
    /\ Len(a_log) = 2

\* ------------------------------------------------------------------------
\* Properties of prepare_data_for_db (checked under SpecL)
\* ------------------------------------------------------------------------
\* prepare_data_for_db was called
Prepared == LoadReturned /\ Began("to_sql")

\* the columns process_categorical_data made categorical
CategoryColumns ==
    {"type", "rating", "rating_category", "duration_unit", "date_added_day_of_week"}

\* C25: prepare_data_for_db returns a new table with the rows, in order, and
\* the column names of its input and leaves its input as it was; the result
\* has no infinite numeric value, its category columns hold plain text with
\* the missing values missing, and every value missing in the input is
\* missing in the result.
PreparedTableKeepsRowsAndMissing ==
    Prepared =>
        LET in == l_df.rows
            out == l_res.df_to_load
        IN /\ l_res.df = l_df
           /\ Len(out) = Len(in)
           /\ \A i \in 1..Len(in) :
                 /\ DOMAIN out[i] = DOMAIN in[i]
                 /\ out[i].index = in[i].index
                 /\ \A c \in (DOMAIN in[i]) \ (TextColumns \cup NumberColumns) :
                       out[i][c] = in[i][c]
                 /\ out[i].release_year.n \notin {Inf, -Inf}
                 /\ \A c \in NumberColumns :
                       /\ out[i][c] \notin {Inf, -Inf}
                       /\ in[i][c] = NaNnum => out[i][c] = NaNnum
                       /\ in[i][c] \notin {Inf, -Inf, NaNnum} => out[i][c] = in[i][c]
                 /\ \A c \in TextColumns :
                       /\ in[i][c] = NaN => out[i][c] = PyNone
                       /\ in[i][c] \notin {NaN, T_nan} => out[i][c] = in[i][c]
                       /\ c \notin CategoryColumns => (in[i][c] # NaN => out[i][c] = in[i][c])

\* a prepared table whose infinite duration_value became missing
InfiniteValueBecameMissing ==
    /\ Prepared
    /\ l_df.rows[1].duration_value = Inf
    /\ l_res.df_to_load[1].duration_value = NaNnum
    /\ l_res.df = l_df

\* ------------------------------------------------------------------------
\* Properties of save_to_file and create_directory (checked under SpecU)
\* ------------------------------------------------------------------------
\* C30: save_to_file and create_directory never raise: when a step of theirs
\* fails, the failure is logged through the error handler and the call
\* returns normally.
FileUtilitiesNeverRaise ==
    u_last.op # "none" =>
        /\ ~u_last.raised
        /\ u_last.fault # "none" =>
              (u_log # <<>> /\ u_log[Len(u_log)][1] = "ERROR")

====
